---- MODULE Spec2Model ----
(***************************************************************************)
(* Model of the Quarry dependency engine (src/pyrite): build graph,        *)
(* dependency-source parsing, normalisation and fingerprinting, lockfile   *)
(* codec and version constraints.  Every exported C function is a pure     *)
(* function from its input buffers to a return code and a result buffer;   *)
(* a behaviour fixes the caller's input in Init and each action is one     *)
(* call, whose outcome is recorded under the call's label in `out`.        *)
(***************************************************************************)
EXTENDS Integers, Sequences, FiniteSets, TLC

VARIABLES
    input,   \* what the caller passes in (fixed by Init)
    out      \* function: label of a call already made |-> its outcome

vars == <<input, out>>

\* The outcome of a call: the int32 return code and the result buffer.
Outcome(r, res) == [ret |-> r, result |-> res]

Called(l) == l \in DOMAIN out

NoCalls == [l \in {} |-> 0]

Record(l, o) == out' = (l :> o) @@ out

Min(a, b) == IF a < b THEN a ELSE b

\* A C loop "for (i = lo; i <= hi; i++) acc = Step(acc, i)", evaluated by
\* halving the index range so that long loops stay shallow (the test
\* first = first has TLC work out the first half before the second).
RECURSIVE FoldRange(_, _, _, _)
FoldRange(Step(_, _), acc, lo, hi) ==
    IF lo > hi THEN acc
    ELSE IF lo = hi THEN Step(acc, lo)
    ELSE LET mid == (lo + hi) \div 2
             first == FoldRange(Step, acc, lo, mid)
         IN  IF first = first THEN FoldRange(Step, first, mid + 1, hi) ELSE first

(***************************************************************************)
(* build_graph.c                                                           *)
(***************************************************************************)
MAX_NODES == 256
MAX_DEPS_PER_NODE == 64
MAX_STRING_LEN == 256

\* Graph: nodes[i] is the i-th node name, deps[i] its dependency names
\* (dep_counts[i] = Len(deps[i]), node_count = Len(nodes)).
EmptyGraph == [nodes |-> <<>>, deps |-> <<>>]

RECURSIVE find_from(_, _, _)
find_from(nodes, name, i) ==
    IF i > Len(nodes) THEN 0
    ELSE IF nodes[i] = name THEN i
    ELSE find_from(nodes, name, i + 1)

\* index (1-based) of the node called name, 0 where the C code returns -1
find_node_index(g, name) == find_from(g.nodes, name, 1)

\* returns <<graph, index>>; index 0 is the C code's -1
get_or_add_node(g, name) ==
    IF Len(name) >= MAX_STRING_LEN THEN <<g, 0>>
    ELSE IF find_node_index(g, name) > 0 THEN <<g, find_node_index(g, name)>>
    ELSE IF Len(g.nodes) >= MAX_NODES THEN <<g, 0>>
    ELSE <<[nodes |-> Append(g.nodes, name), deps |-> Append(g.deps, <<>>)],
           Len(g.nodes) + 1>>

add_dependency(g, node_idx, dep_name) ==
    IF node_idx < 1 \/ node_idx > Len(g.nodes) THEN g
    ELSE IF Len(g.deps[node_idx]) >= MAX_DEPS_PER_NODE THEN g
    ELSE IF Len(dep_name) >= MAX_STRING_LEN THEN g
    ELSE [g EXCEPT !.deps[node_idx] = Append(@, dep_name)]

\* the loop of parse_edges_json over one array's elements
add_dependencies(g, node_idx, deps) ==
    FoldRange(LAMBDA acc, j : add_dependency(acc, node_idx, deps[j]),
              g, 1, Len(deps))

\* edges is the JSON object as its members in text order: <<key, array>>.
\* Returns <<ret, graph>>.
RECURSIVE parse_edges_from(_, _, _)
parse_edges_from(edges, g, k) ==
    IF k > Len(edges) THEN <<0, g>>
    ELSE LET r == get_or_add_node(g, edges[k][1])
         IN  IF r[2] < 1 THEN <<-1, g>>
             ELSE parse_edges_from(edges,
                                   add_dependencies(r[1], r[2], edges[k][2]),
                                   k + 1)

parse_edges_json(edges) == parse_edges_from(edges, EmptyGraph, 1)

\* DFS state: found (the return value), visited, rec_stack (sets of indices).
RECURSIVE has_cycle_dfs(_, _, _, _)

\* has_cycle_dfs without "rec_stack[node_idx] = false" on the way out
has_cycle_dfs_no_unwind(g, node_idx, visited, rec_stack) ==
    IF node_idx \in rec_stack
    THEN [found |-> TRUE, visited |-> visited, rec_stack |-> rec_stack]
    ELSE IF node_idx \in visited
    THEN [found |-> FALSE, visited |-> visited, rec_stack |-> rec_stack]
    ELSE LET dep_step(st, i) ==
                 IF st.found THEN st
                 ELSE LET dep_idx == find_node_index(g, g.deps[node_idx][i])
                      IN  IF dep_idx > 0
                          THEN has_cycle_dfs(g, dep_idx, st.visited, st.rec_stack)
                          ELSE st
         IN  FoldRange(dep_step,
                       [found |-> FALSE,
                        visited |-> visited \cup {node_idx},
                        rec_stack |-> rec_stack \cup {node_idx}],
                       1, Len(g.deps[node_idx]))

has_cycle_dfs(g, node_idx, visited, rec_stack) ==
    IF node_idx \in rec_stack
    THEN [found |-> TRUE, visited |-> visited, rec_stack |-> rec_stack]
    ELSE IF node_idx \in visited
    THEN [found |-> FALSE, visited |-> visited, rec_stack |-> rec_stack]
    ELSE LET \* one pass of the loop over g->deps[node_idx][i]; once a
             \* recursive call has returned true the function has returned
             dep_step(st, i) ==
                 IF st.found THEN st
                 ELSE LET dep_idx == find_node_index(g, g.deps[node_idx][i])
                      IN  IF dep_idx > 0
                          THEN has_cycle_dfs(g, dep_idx, st.visited, st.rec_stack)
                          ELSE st
             after == FoldRange(dep_step,
                                [found |-> FALSE,
                                 visited |-> visited \cup {node_idx},
                                 rec_stack |-> rec_stack \cup {node_idx}],
                                1, Len(g.deps[node_idx]))
         IN  IF after.found THEN after
             ELSE [after EXCEPT !.rec_stack = @ \ {node_idx}]

\* the loop "for i < node_count: if !visited[i] && has_cycle_dfs(...) break"
RECURSIVE found_cycle_from(_, _, _, _)
found_cycle_from(g, i, visited, rec_stack) ==
    IF i > Len(g.nodes) THEN FALSE
    ELSE IF i \in visited THEN found_cycle_from(g, i + 1, visited, rec_stack)
    ELSE LET r == has_cycle_dfs(g, i, visited, rec_stack)
         IN  IF r.found THEN TRUE
             ELSE found_cycle_from(g, i + 1, r.visited, r.rec_stack)

\* has_cycle_c: result is 1 (cycle) or 0; ret -1 when parsing fails
has_cycle_c(edges) ==
    LET p == parse_edges_json(edges)
    IN  IF p[1] # 0 THEN Outcome(-1, <<>>)
        ELSE Outcome(0, IF found_cycle_from(p[2], 1, {}, {}) THEN 1 ELSE 0)

\* in_degree left as initialised ({0}) instead of copied from dep_counts
in_degree_unset(g) == [i \in 1..Len(g.nodes) |-> 0]

\* in_degree[i] = g.dep_counts[i]
in_degree_of(g) == [i \in 1..Len(g.nodes) |-> Len(g.deps[i])]

\* reverse_deps: for every entry deps[i][j] that names a node, i is appended
\* to that node's list while the list has room.
reverse_deps_add(g, rev, i, j) ==
    LET dep_idx == find_node_index(g, g.deps[i][j])
    IN  IF dep_idx > 0 /\ Len(rev[dep_idx]) < MAX_NODES
        THEN [rev EXCEPT ![dep_idx] = Append(@, i)]
        ELSE rev

reverse_deps_of(g) ==
    FoldRange(LAMBDA rev, i :
                  FoldRange(LAMBDA r, j : reverse_deps_add(g, r, i, j),
                            rev, 1, Len(g.deps[i])),
              [i \in 1..Len(g.nodes) |-> <<>>], 1, Len(g.nodes))

\* the nodes whose in-degree is 0, highest index first
RECURSIVE initial_queue_reversed(_, _)
initial_queue_reversed(in_degree, i) ==
    IF i > Len(in_degree) THEN <<>>
    ELSE IF in_degree[i] = 0 THEN initial_queue_reversed(in_degree, i + 1) \o <<i>>
    ELSE initial_queue_reversed(in_degree, i + 1)

\* the nodes whose in-degree is 0, in index order
RECURSIVE initial_queue(_, _)
initial_queue(in_degree, i) ==
    IF i > Len(in_degree) THEN <<>>
    ELSE IF in_degree[i] = 0 THEN <<i>> \o initial_queue(in_degree, i + 1)
    ELSE initial_queue(in_degree, i + 1)

\* kahn_release without the test "if (in_degree[dependent] == 0)"
kahn_release_untested(st, dependent) ==
    <<[st[1] EXCEPT ![dependent] = @ - 1], Append(st[2], dependent)>>

\* one pass of the inner loop over reverse_deps[current]; st = <<in_degree, queue>>
kahn_release(st, dependent) ==
    LET d == st[1][dependent] - 1
    IN  <<[st[1] EXCEPT ![dependent] = d],
          IF d = 0 THEN Append(st[2], dependent) ELSE st[2]>>

\* while (queue_start < queue_end): returns result_order
RECURSIVE kahn_loop(_, _, _, _, _)
kahn_loop(rev, in_degree, queue, queue_start, result_order) ==
    IF queue_start > Len(queue) THEN result_order
    ELSE LET current == queue[queue_start]
             r == FoldRange(LAMBDA st, i : kahn_release(st, rev[current][i]),
                            <<in_degree, queue>>, 1, Len(rev[current]))
         IN  kahn_loop(rev, r[1], r[2], queue_start + 1,
                       Append(result_order, current))

\* the result buffer: the node names in result_order (the JSON array's
\* elements); the array is written only while it fits in result_cap.
RESULT_CAP == 65536

RECURSIVE json_array_fits(_, _, _, _)
json_array_fits(g, result_order, i, json_pos) ==
    IF i > Len(result_order) THEN TRUE
    ELSE LET pos1 == IF i > 1 THEN json_pos + 1 ELSE json_pos
             name_len == Len(g.nodes[result_order[i]])
         IN  IF pos1 + name_len + 5 < RESULT_CAP
             THEN json_array_fits(g, result_order, i + 1, pos1 + name_len + 2)
             ELSE FALSE

topological_sort_c(edges) ==
    LET p == parse_edges_json(edges)
    IN  IF p[1] # 0 THEN Outcome(-1, <<>>)
        ELSE LET g == p[2]
             IN  IF found_cycle_from(g, 1, {}, {}) THEN Outcome(-1, <<>>)
                 ELSE LET in_degree == in_degree_of(g)
                          rev == reverse_deps_of(g)
                          order == kahn_loop(rev, in_degree,
                                             initial_queue(in_degree, 1), 1, <<>>)
                      IN  IF Len(order) # Len(g.nodes) THEN Outcome(-1, <<>>)
                          ELSE IF ~json_array_fits(g, order, 1, 1)
                          THEN Outcome(-1, <<>>)
                          ELSE Outcome(0, [i \in 1..Len(order) |-> g.nodes[order[i]]])


(***************************************************************************)
(* Build graph: inputs, calls and properties                               *)
(***************************************************************************)
Range(f) == {f[i] : i \in DOMAIN f}

\* Edge maps over three names: the keys are a prefix of GraphNames, so a name
\* that is not a key of a map is a dependency-only name (a leaf) there.  A
\* map holds at most MaxDeps dependency entries in all, duplicates included.
GraphNames == <<"a", "b", "c">>
MaxDeps == 4

DepLists(n) == [1..n -> Range(GraphNames)]

\* the k-tuples of dependency lists with at most budget entries together
RECURSIVE DepListTuples(_, _)
DepListTuples(k, budget) ==
    IF k = 0 THEN {<<>>}
    ELSE UNION {{<<l>> \o rest : l \in DepLists(n),
                                 rest \in DepListTuples(k - 1, budget - n)}
                : n \in 0..budget}

SmallEdgeMaps ==
    UNION {{[i \in 1..k |-> <<GraphNames[i], f[i]>>] : f \in DepListTuples(k, MaxDeps)}
           : k \in 1..Len(GraphNames)}

\* Fan-in maps: k nodes that each list the node "hub" r times, r either once
\* or as often as one dependency list can hold.
FanNames == <<"n1", "n2", "n3", "n4", "n5", "n6", "n7", "n8">>
MaxFanIn == 5

FanInMap(k, r) ==
    <<<<"hub", <<>>>>>> \o [i \in 1..k |-> <<FanNames[i], [j \in 1..r |-> "hub"]>>]

FanInEdgeMaps ==
    {FanInMap(k, r) : k \in 1..Min(MaxFanIn, Len(FanNames)),
                      r \in {1, MAX_DEPS_PER_NODE}}

EdgeMaps == SmallEdgeMaps \cup FanInEdgeMaps

InitGraph == input \in EdgeMaps /\ out = NoCalls

HasCycle ==
    /\ out = NoCalls
    /\ Record("has_cycle_c", has_cycle_c(input))
    /\ UNCHANGED input

TopologicalSort ==
    /\ out = NoCalls
    /\ Record("topological_sort_c", topological_sort_c(input))
    /\ UNCHANGED input

NextGraph == HasCycle \/ TopologicalSort

SpecGraph == InitGraph /\ [][NextGraph]_vars

\* --- what the claims speak of, defined on the edge map itself ---
Keys(edges) == {edges[k][1] : k \in 1..Len(edges)}

\* the names some key in S lists as a dependency and that are keys themselves
KeyDepsOf(edges, S) ==
    {d \in Keys(edges) :
        \E k \in 1..Len(edges) : edges[k][1] \in S /\ d \in Range(edges[k][2])}

RECURSIVE ReachableIn(_, _, _)
ReachableIn(edges, S, n) ==
    IF n = 0 THEN {}
    ELSE KeyDepsOf(edges, S) \cup ReachableIn(edges, KeyDepsOf(edges, S), n - 1)

HasDependencyCycle(edges) ==
    \E key \in Keys(edges) :
        key \in ReachableIn(edges, {key}, Cardinality(Keys(edges)))

Positions(order, name) == {i \in 1..Len(order) : order[i] = name}

\* l without the later occurrences of each name
DedupList(l) ==
    FoldRange(LAMBDA acc, i : IF l[i] \in Range(acc) THEN acc ELSE Append(acc, l[i]),
              <<>>, 1, Len(l))

DedupEdges(edges) == [k \in 1..Len(edges) |-> <<edges[k][1], DedupList(edges[k][2])>>]

C2_FailsIffCycle ==
    Called("topological_sort_c") =>
        ((out["topological_sort_c"].ret # 0) <=> HasDependencyCycle(input))

C4_DuplicatesIrrelevant ==
    Called("topological_sort_c") =>
        out["topological_sort_c"] = topological_sort_c(DedupEdges(input))


(***************************************************************************)
(* C strings: a text is a sequence of one-character strings; reading at or *)
(* past its end gives the terminating NUL.                                 *)
(***************************************************************************)
NUL == "NUL"

At(s, i) == IF i >= 1 /\ i <= Len(s) THEN s[i] ELSE NUL

\* the text from index i on (the C pointer s + i - 1)
From(s, i) == SubSeq(s, i, Len(s))

\* strncmp(a, b, n) == 0
strncmp_eq(a, b, n) ==
    \A i \in 1..n :
        \/ At(a, i) = At(b, i)
        \/ \E j \in 1..(i - 1) : At(a, j) = NUL /\ At(b, j) = NUL

\* strcmp(a, b) == 0 for texts without embedded NUL
strcmp_eq(a, b) == a = b

\* strchr(s, c): index of the first c in s, 0 for NULL
strchr(s, c) ==
    IF \E i \in 1..Len(s) : s[i] = c
    THEN CHOOSE i \in 1..Len(s) : s[i] = c /\ \A j \in 1..(i - 1) : s[j] # c
    ELSE 0

\* index of the first character from i on that is not in chars (a skip loop)
SkipWhile(s, i, chars) ==
    CHOOSE k \in i..(Len(s) + 1) :
        /\ At(s, k) \notin chars
        /\ \A j \in i..(k - 1) : s[j] \in chars

DigitChars == <<"0", "1", "2", "3", "4", "5", "6", "7", "8", "9">>

IsDigit(c) == c \in Range(DigitChars)

DigitVal(c) == (CHOOSE d \in 1..10 : DigitChars[d] = c) - 1

(***************************************************************************)
(* version.c                                                               *)
(***************************************************************************)
\* strtok(s, "."): the maximal runs of characters other than '.', in order
RECURSIVE strtok_tokens(_)
strtok_tokens(s) ==
    LET start == SkipWhile(s, 1, {"."})
    IN  IF start > Len(s) THEN <<>>
        ELSE LET stop == CHOOSE k \in start..(Len(s) + 1) :
                             /\ At(s, k) \in {".", NUL}
                             /\ \A j \in start..(k - 1) : s[j] # "."
             IN  <<SubSeq(s, start, stop - 1)>> \o strtok_tokens(From(s, stop + 1))

\* atoi: leading white space, an optional sign, then digits up to the first
\* other character; 0 when there is no digit
RECURSIVE atoi_digits(_, _, _)
atoi_digits(s, i, acc) ==
    IF IsDigit(At(s, i)) THEN atoi_digits(s, i + 1, acc * 10 + DigitVal(s[i]))
    ELSE acc

atoi(s) ==
    LET i == SkipWhile(s, 1, {" ", "\t", "\n", "\r"})
    IN  IF At(s, i) = "-" THEN 0 - atoi_digits(s, i + 1, 0)
        ELSE IF At(s, i) = "+" THEN atoi_digits(s, i + 1, 0)
        ELSE atoi_digits(s, i, 0)

MAX_PARTS == 32

\* parts1 / parts2: atoi of the first 32 tokens
version_parts(v) ==
    LET toks == strtok_tokens(v)
    IN  [i \in 1..Min(Len(toks), MAX_PARTS) |-> atoi(toks[i])]

\* the comparison loop run over the parts of the first version only
RECURSIVE compare_parts_of_first(_, _, _)
compare_parts_of_first(parts1, parts2, i) ==
    IF i > Len(parts1) THEN 0
    ELSE LET part1 == parts1[i]
             part2 == IF i <= Len(parts2) THEN parts2[i] ELSE 0
         IN  IF part1 < part2 THEN -1
             ELSE IF part1 > part2 THEN 1
             ELSE compare_parts_of_first(parts1, parts2, i + 1)

RECURSIVE compare_parts(_, _, _)
compare_parts(parts1, parts2, i) ==
    IF i > Len(parts1) /\ i > Len(parts2) THEN 0
    ELSE LET part1 == IF i <= Len(parts1) THEN parts1[i] ELSE 0
             part2 == IF i <= Len(parts2) THEN parts2[i] ELSE 0
         IN  IF part1 < part2 THEN -1
             ELSE IF part1 > part2 THEN 1
             ELSE compare_parts(parts1, parts2, i + 1)

\* -1, 0 or 1
version_compare_c(v1, v2) == compare_parts(version_parts(v1), version_parts(v2), 1)

PREFIX_SIZE == 64

\* prefix[64]: snprintf "%.*s" of the text before the first dot, then
\* strncat of "." while there is room
pessimistic_prefix(base_version, dot) ==
    LET major == SubSeq(base_version, 1, Min(dot - 1, PREFIX_SIZE - 1))
    IN  IF PREFIX_SIZE - Len(major) - 1 >= 1 THEN Append(major, ".") ELSE major

\* 1 or 0
version_satisfies_c(version, constraint) ==
    IF strcmp_eq(constraint, <<"*">>) THEN 1
    ELSE IF strncmp_eq(constraint, <<">", "=">>, 2)
    THEN LET min_version == From(constraint, SkipWhile(constraint, 3, {" ", "\t"}))
         IN  IF version_compare_c(version, min_version) >= 0 THEN 1 ELSE 0
    ELSE IF strncmp_eq(constraint, <<"~", ">">>, 2)
    THEN LET base_version == From(constraint, SkipWhile(constraint, 3, {" ", "\t"}))
             dot == strchr(base_version, ".")
         IN  IF dot > 0
             THEN LET prefix == pessimistic_prefix(base_version, dot)
                  IN  IF Len(version) >= Len(prefix)
                      THEN (IF strncmp_eq(version, prefix, Len(prefix)) THEN 1 ELSE 0)
                      ELSE 0
             ELSE IF strncmp_eq(version, base_version, Len(base_version)) THEN 1 ELSE 0
    ELSE IF strcmp_eq(version, constraint) THEN 1 ELSE 0


(***************************************************************************)
(* Version constraints: inputs, calls and properties                       *)
(***************************************************************************)
\* decimal text of a number below 100
NumStr(n) ==
    IF n < 10 THEN <<DigitChars[n + 1]>>
    ELSE <<DigitChars[(n \div 10) + 1], DigitChars[(n % 10) + 1]>>

Dot2(x, y) == NumStr(x) \o <<".">> \o NumStr(y)
Dot3(x, y, z) == Dot2(x, y) \o <<".">> \o NumStr(z)

MaxComponent == 2
Components == 0..MaxComponent

Versions ==
    {Dot3(x, y, z) : x, y, z \in Components}
    \cup {Dot3(1, 5, 0), Dot3(1, 0, 9), Dot3(10, 0, 0), Dot3(1, 10, 0), Dot2(1, 0),
          Dot3(1, 0, 0) \o <<"-", "r", "c">>}

Pessimistic2(x, y) == <<"~", ">">> \o Dot2(x, y)
Pessimistic3(x, y, z) == <<"~", ">">> \o Dot3(x, y, z)

Constraints ==
    {<<"*">>}
    \cup {<<">", "=">> \o Dot3(x, y, 0) : x, y \in Components}
    \cup {<<">", "=", " ">> \o Dot2(1, 10)}
    \cup {Pessimistic2(x, y) : x, y \in Components}
    \cup {Pessimistic3(x, y, z) : x, y \in Components, z \in {0, 1}}
    \cup {<<"~", ">", " ">> \o Dot2(1, 0), <<"~", ">", "1">>}
    \cup {Dot3(x, y, 0) : x, y \in Components}

InitVersion ==
    /\ input \in [version : Versions, constraint : Constraints]
    /\ out = NoCalls

VersionSatisfies ==
    /\ out = NoCalls
    /\ Record("version_satisfies_c",
              Outcome(version_satisfies_c(input.version, input.constraint), <<>>))
    /\ UNCHANGED input

NextVersion == VersionSatisfies

SpecVersion == InitVersion /\ [][NextVersion]_vars

StartsWith(s, prefix) ==
    Len(s) >= Len(prefix) /\ SubSeq(s, 1, Len(prefix)) = prefix

\* C10 (as claimed): for a constraint ~>X.Y or ~>X.Y.Z, version_satisfies_c
\* is true exactly when the version text starts with "X.Y.".
C10_PessimisticLocksMinor ==
    Called("version_satisfies_c") =>
        \A x, y \in Components :
            (\/ input.constraint = Pessimistic2(x, y)
             \/ \E z \in Components : input.constraint = Pessimistic3(x, y, z))
            => ((out["version_satisfies_c"].ret = 1)
                    <=> StartsWith(input.version, Dot2(x, y) \o <<".">>))

(***************************************************************************)
(* The JSON scanning helpers shared by dep_source.c, dep_fingerprint.c and *)
(* lockfile.c (each file holds its own identical static copy).  A local    *)
(* variable of the C code is a parameter of the operator for the code that *)
(* follows its assignment.                                                 *)
(***************************************************************************)
DEP_MAX_STRING_LEN == 1024

WhiteSpace == {" ", "\t", "\n", "\r"}

skip_whitespace(s, pos) == SkipWhile(s, pos, WhiteSpace)

\* the scan of find_string_end after the opening quote
RECURSIVE find_string_end_from(_, _)
find_string_end_from(s, i) ==
    IF At(s, i) = NUL THEN i
    ELSE IF s[i] = "\\" /\ At(s, i + 1) = "\"" THEN find_string_end_from(s, i + 2)
    ELSE IF s[i] = "\"" THEN i
    ELSE find_string_end_from(s, i + 1)

\* index of the closing quote of the string that opens at pos (of the NUL
\* when there is none); pos itself when no string opens there
find_string_end(s, pos) ==
    IF At(s, pos) # "\"" THEN pos ELSE find_string_end_from(s, pos + 1)

unescape_char(c) ==
    IF c = "n" THEN "\n"
    ELSE IF c = "t" THEN "\t"
    ELSE IF c = "r" THEN "\r"
    ELSE c

\* the copy loop of parse_json_string over s[start .. end - 1]
RECURSIVE unescape(_, _, _)
unescape(s, start, end) ==
    IF start >= end THEN <<>>
    ELSE IF s[start] = "\\" /\ start + 1 < end
    THEN <<unescape_char(s[start + 1])>> \o unescape(s, start + 2, end)
    ELSE <<s[start]>> \o unescape(s, start + 1, end)

\* ret is the length written or -1; buf is the result buffer afterwards
\* (left as it was when ret is -1)
string_parsed(text) == [ret |-> Len(text), buf |-> text]

string_not_parsed(buf) == [ret |-> -1, buf |-> buf]

\* parse_json_string once start and end are known
copy_json_string(s, start, end, buf, max_len) ==
    IF At(s, end) # "\"" THEN string_not_parsed(buf)
    ELSE IF end - start >= max_len THEN string_not_parsed(buf)
    ELSE string_parsed(unescape(s, start, end))

\* parse_json_string after its skip_whitespace
parse_json_string_at(s, pos, buf, max_len) ==
    IF At(s, pos) # "\"" THEN string_not_parsed(buf)
    ELSE copy_json_string(s, pos + 1, find_string_end(s, pos), buf, max_len)

parse_json_string(s, json_pos, buf, max_len) ==
    parse_json_string_at(s, skip_whitespace(s, json_pos), buf, max_len)

\* "\"" field_name "\"" stands at pos
field_name_at(s, pos, field_name) ==
    /\ At(s, pos) = "\""
    /\ \A i \in 1..Len(field_name) : At(s, pos + i) = field_name[i]
    /\ At(s, pos + Len(field_name) + 1) = "\""

\* "Skip to next field": up to the next ',' or '}' outside a string
RECURSIVE skip_to_next_field(_, _)
skip_to_next_field(s, pos) ==
    IF At(s, pos) \in {NUL, ",", "}"} THEN pos
    ELSE IF s[pos] = "\"" THEN skip_to_next_field(s, find_string_end(s, pos) + 1)
    ELSE skip_to_next_field(s, pos + 1)

\* "if (*pos == ',') pos++" after the skip
after_comma(s, pos) == IF At(s, pos) = "," THEN pos + 1 ELSE pos

(***************************************************************************)
(* dep_source.c                                                            *)
(***************************************************************************)
\* get_json_field: the value of a field whose name and colon were found
json_field_value(s, value, buf) ==
    IF At(s, value) = "\""
    THEN parse_json_string(s, value, buf, DEP_MAX_STRING_LEN)
    ELSE [ret |-> 0, buf |-> buf]

\* get_json_field from position pos0 of json on; buf is the result buffer
RECURSIVE get_json_field_at(_, _, _, _)
RECURSIVE json_field_here(_, _, _, _)
RECURSIVE json_field_colon(_, _, _, _)
get_json_field_at(s, pos0, field_name, buf) ==
    IF At(s, pos0) = NUL THEN [ret |-> -1, buf |-> buf]
    ELSE json_field_here(s, skip_whitespace(s, pos0), field_name, buf)

\* one pass of the loop, after its skip_whitespace
json_field_here(s, pos, field_name, buf) ==
    IF At(s, pos) = "}" THEN [ret |-> -1, buf |-> buf]
    ELSE IF field_name_at(s, pos, field_name)
    THEN json_field_colon(s, skip_whitespace(s, pos + Len(field_name) + 2),
                          field_name, buf)
    ELSE get_json_field_at(s, after_comma(s, skip_to_next_field(s, pos)),
                           field_name, buf)

\* the field name matched; pos is after the name and the whitespace
json_field_colon(s, pos, field_name, buf) ==
    IF At(s, pos) # ":" THEN get_json_field_at(s, pos, field_name, buf)
    ELSE json_field_value(s, skip_whitespace(s, pos + 1), buf)

\* the scan starts at json itself, that is at the opening brace of the object
get_json_field(json, field_name, buf) == get_json_field_at(json, 1, field_name, buf)

is_json_object(json) == At(json, skip_whitespace(json, 1)) = "{"

\* the field names and the pieces of the result text
Field ==
    [git |-> <<"g", "i", "t">>,
     path |-> <<"p", "a", "t", "h">>,
     version |-> <<"v", "e", "r", "s", "i", "o", "n">>,
     branch |-> <<"b", "r", "a", "n", "c", "h">>,
     tag |-> <<"t", "a", "g">>,
     rev |-> <<"r", "e", "v">>,
     commit |-> <<"c", "o", "m", "m", "i", "t">>,
     checksum |-> <<"c", "h", "e", "c", "k", "s", "u", "m">>,
     hash |-> <<"h", "a", "s", "h">>]

SourceFormat ==
    [null |-> <<"n", "u", "l", "l">>,
     git_open |-> <<"{", "\"", "t", "y", "p", "e", "\"", ":", "\"", "g", "i", "t", "\"", ",", "\"", "g", "i", "t", "_", "u", "r", "l", "\"", ":", "\"">>,
     path_open |-> <<"{", "\"", "t", "y", "p", "e", "\"", ":", "\"", "p", "a", "t", "h", "\"", ",", "\"", "p", "a", "t", "h", "\"", ":", "\"">>,
     registry_open |-> <<"{", "\"", "t", "y", "p", "e", "\"", ":", "\"", "r", "e", "g", "i", "s", "t", "r", "y", "\"", ",", "\"", "v", "e", "r", "s", "i", "o", "n", "\"", ":", "\"">>,
     git_branch |-> <<",", "\"", "g", "i", "t", "_", "b", "r", "a", "n", "c", "h", "\"", ":", "\"">>,
     commit |-> <<",", "\"", "c", "o", "m", "m", "i", "t", "\"", ":", "\"">>,
     hash |-> <<",", "\"", "h", "a", "s", "h", "\"", ":", "\"">>,
     checksum |-> <<",", "\"", "c", "h", "e", "c", "k", "s", "u", "m", "\"", ":", "\"">>,
     quote_close |-> <<"\"", "}">>]

QUOTE == <<"\"">>
CLOSE_BRACE == <<"}">>

\* one optional field: appended when the value is not empty and fits
optional_field(result, label, value) ==
    IF value # <<>> /\ Len(result) + Len(value) + 30 < RESULT_CAP
    THEN result \o label \o value \o QUOTE
    ELSE result

\* the first snprintf of a branch
open_object(label, value) ==
    IF 50 < RESULT_CAP THEN label \o value \o QUOTE ELSE <<>>

close_object(result) ==
    IF Len(result) + 2 < RESULT_CAP THEN result \o CLOSE_BRACE ELSE result

null_result == IF 4 < RESULT_CAP THEN SourceFormat.null ELSE <<>>

\* Priority: branch > tag > rev (<<>> stands for NULL)
git_branch_of(branch_value, tag_value, rev_value) ==
    IF branch_value # <<>> THEN branch_value
    ELSE IF tag_value # <<>> THEN tag_value
    ELSE rev_value

git_source(json_str, git_url) ==
    close_object(
        optional_field(
            optional_field(
                open_object(SourceFormat.git_open, git_url),
                SourceFormat.git_branch,
                git_branch_of(get_json_field(json_str, Field.branch, <<>>).buf,
                              get_json_field(json_str, Field.tag, <<>>).buf,
                              get_json_field(json_str, Field.rev, <<>>).buf)),
            SourceFormat.commit, get_json_field(json_str, Field.commit, <<>>).buf))

path_source(json_str, path_value) ==
    close_object(
        optional_field(open_object(SourceFormat.path_open, path_value),
                       SourceFormat.hash, get_json_field(json_str, Field.hash, <<>>).buf))

registry_source(json_str, version_value) ==
    close_object(
        optional_field(open_object(SourceFormat.registry_open, version_value),
                       SourceFormat.checksum,
                       get_json_field(json_str, Field.checksum, <<>>).buf))

\* the object branch from the "version" probe on
source_by_version(json_str, version) ==
    IF version.ret >= 0 THEN registry_source(json_str, version.buf) ELSE null_result

\* the object branch from the "path" probe on
source_by_path(json_str, path) ==
    IF path.ret >= 0 THEN path_source(json_str, path.buf)
    ELSE source_by_version(json_str, get_json_field(json_str, Field.version, <<>>))

\* the object branch from the "git" probe on
source_by_git(json_str, git) ==
    IF git.ret >= 0 THEN git_source(json_str, git.buf)
    ELSE source_by_path(json_str, get_json_field(json_str, Field.path, <<>>))

\* the branch of a value that is not an object
source_of_string(version_str) ==
    IF version_str.ret >= 0
    THEN (IF Len(version_str.buf) + 50 < RESULT_CAP
          THEN SourceFormat.registry_open \o version_str.buf \o SourceFormat.quote_close
          ELSE <<>>)
    ELSE null_result

\* parse_dependency_source_c(name, value_json): ret is 0, result the text
parse_dependency_source_c(name, json_str) ==
    IF is_json_object(json_str)
    THEN Outcome(0, source_by_git(json_str, get_json_field(json_str, Field.git, <<>>)))
    ELSE Outcome(0, source_of_string(
                        parse_json_string(json_str, 1, <<>>, DEP_MAX_STRING_LEN)))

(***************************************************************************)
(* Specification of the dependency source parser: one call of              *)
(* parse_dependency_source_c on a manifest value.  The value is a string   *)
(* or an object of string members; value_json is its JSON encoding as the  *)
(* caller's encoder writes it (members in the given order, separated       *)
(* compactly or with one space after ':' and ',').                         *)
(***************************************************************************)
BACKSLASH == <<"\\">>

\* JSON string encoding: '"' and '\' are written with a backslash before
RECURSIVE json_escape(_)
json_escape(text) ==
    IF text = <<>> THEN <<>>
    ELSE (IF Head(text) \in {"\"", "\\"} THEN BACKSLASH ELSE <<>>)
         \o <<Head(text)>> \o json_escape(Tail(text))

JsonString(text) == QUOTE \o json_escape(text) \o QUOTE

\* members is a sequence of <<key, value text>>; gap is <<>> or <<" ">>
RECURSIVE JsonMembers(_, _, _)
JsonMembers(members, gap, k) ==
    IF k > Len(members) THEN <<>>
    ELSE (IF k > 1 THEN <<",">> \o gap ELSE <<>>)
         \o JsonString(members[k][1]) \o <<":">> \o gap \o JsonString(members[k][2])
         \o JsonMembers(members, gap, k + 1)

JsonObject(members, gap) == <<"{">> \o JsonMembers(members, gap, 1) \o CLOSE_BRACE

F_other == <<"x">>

SourceKeys == {Field.git, Field.path, Field.version, Field.branch, Field.tag, Field.rev, Field.commit,
               Field.checksum, Field.hash, F_other}

GitKeys == {Field.git, Field.branch, Field.tag, Field.rev, Field.commit}

\* the value each key carries in the inputs: its own first letter, doubled
SourceValue(key) == <<key[1], key[1]>>

MaxMembers == 3

Injective(f) == \A i, j \in DOMAIN f : f[i] = f[j] => i = j

KeyOrders(keys, n) == {f \in UNION {[1..k -> keys] : k \in 0..n} : Injective(f)}

MembersOf(order) == [k \in DOMAIN order |-> <<order[k], SourceValue(order[k])>>]

\* every order of up to MaxMembers distinct keys, and every order of every
\* combination of the git keys
SourceObjects ==
    {MembersOf(o) : o \in KeyOrders(SourceKeys, MaxMembers)
                          \cup KeyOrders(GitKeys, Cardinality(GitKeys))}

SourceStrings == {<<"1", ".", "0">>, <<"*">>, <<"a", "\"", "b">>, <<"a", "\\", "n">>}

SourceInputs ==
    {[kind |-> "string", text |-> v, members |-> <<>>, json |-> JsonString(v)] :
        v \in SourceStrings}
    \cup {[kind |-> "object", text |-> <<>>, members |-> m, json |-> JsonObject(m, gap)] :
            m \in SourceObjects, gap \in {<<>>, <<" ">>}}

\* JSON values that are not a non-empty string: the empty string, a number,
\* null, an object and an array
UnusableValues ==
    {<<"\"", "\"">>, <<"1", "2", "3">>, <<"n", "u", "l", "l">>, <<"{", "}">>,
     <<"[", "1", "]">>}

UsableValues == {JsonString(<<"u">>)}

\* members is a sequence of <<key, JSON text of the value>>
RECURSIVE RawMembers(_, _, _)
RawMembers(members, gap, k) ==
    IF k > Len(members) THEN <<>>
    ELSE (IF k > 1 THEN <<",">> \o gap ELSE <<>>)
         \o JsonString(members[k][1]) \o <<":">> \o gap \o members[k][2]
         \o RawMembers(members, gap, k + 1)

\* objects with one of the keys "git", "path" and "version", whose value is
\* any JSON value, after an optional first member and before an optional
\* last one
MalformedObjects ==
    {before \o <<<<key, value>>>> \o after :
        before \in {<<>>, <<<<F_other, JsonString(F_other)>>>>},
        key \in {Field.git, Field.path, Field.version},
        value \in UnusableValues \cup UsableValues,
        after \in {<<>>, <<<<Field.commit, JsonString(<<"c">>)>>>>,
                   <<<<Field.hash, <<"5">>>>>>}}

\* kind "raw": an object whose members carry the JSON text of their values;
\* kind "other": a value that is neither a string nor an object
MalformedInputs ==
    {[kind |-> "raw", text |-> <<>>, members |-> m,
      json |-> <<"{">> \o RawMembers(m, gap, 1) \o CLOSE_BRACE] :
        m \in MalformedObjects, gap \in {<<>>, <<" ">>}}
    \cup {[kind |-> "other", text |-> v, members |-> <<>>, json |-> v] :
            v \in UnusableValues \ {<<"\"", "\"">>, <<"{", "}">>}}

InitSource ==
    /\ input \in SourceInputs \cup MalformedInputs
    /\ out = NoCalls

ParseDependencySource ==
    /\ out = NoCalls
    /\ Record("parse_dependency_source_c",
              parse_dependency_source_c(<<"d">>, input.json))
    /\ UNCHANGED input

NextSource == ParseDependencySource

SpecSource == InitSource /\ [][NextSource]_vars

\* --- what the claims speak of, defined on the manifest value itself ---
HasKey(members, key) == \E k \in DOMAIN members : members[k][1] = key

ValueAt(members, key) ==
    members[CHOOSE k \in DOMAIN members : members[k][1] = key][2]

ClassOf(value) ==
    IF HasKey(value, Field.git) THEN "git"
    ELSE IF HasKey(value, Field.path) THEN "path"
    ELSE IF HasKey(value, Field.version) THEN "registry"
    ELSE "invalid"

ResultClass(text) ==
    IF StartsWith(text, SourceFormat.git_open) THEN "git"
    ELSE IF StartsWith(text, SourceFormat.path_open) THEN "path"
    ELSE IF StartsWith(text, SourceFormat.registry_open) THEN "registry"
    ELSE IF text = SourceFormat.null THEN "invalid"
    ELSE "other"

\* C8 (as claimed): a bare string gives Registry{version: value}; an object
\* is Git when it has a "git" key, else Path when it has a "path" key, else
\* Registry when it has a "version" key, else invalid, whatever the order of
\* its keys.
C8_ParsePrecedence ==
    Called("parse_dependency_source_c") =>
        LET result == out["parse_dependency_source_c"].result
        IN  IF input.kind = "string"
            THEN result = SourceFormat.registry_open \o input.text \o SourceFormat.quote_close
            ELSE ResultClass(result) = ClassOf(input.members)

\* C17 (as claimed): an object whose "git", "path" or "version" key carries
\* a value that is not a non-empty string, and a value that is neither a
\* string nor an object, give the invalid marker null.
C17_NoPartialSource ==
    (/\ Called("parse_dependency_source_c")
     /\ \/ input.kind = "other"
        \/ /\ input.kind = "raw"
           /\ \E k \in DOMAIN input.members :
                  /\ input.members[k][1] \in {Field.git, Field.path, Field.version}
                  /\ input.members[k][2] \in UnusableValues) =>
        out["parse_dependency_source_c"].result = SourceFormat.null

RetainedRef(value) ==
    IF HasKey(value, Field.branch) THEN ValueAt(value, Field.branch)
    ELSE IF HasKey(value, Field.tag) THEN ValueAt(value, Field.tag)
    ELSE IF HasKey(value, Field.rev) THEN ValueAt(value, Field.rev)
    ELSE <<>>

GitSourceText(value) ==
    SourceFormat.git_open \o ValueAt(value, Field.git) \o QUOTE
    \o (IF RetainedRef(value) # <<>>
        THEN SourceFormat.git_branch \o RetainedRef(value) \o QUOTE ELSE <<>>)
    \o (IF HasKey(value, Field.commit)
        THEN SourceFormat.commit \o ValueAt(value, Field.commit) \o QUOTE ELSE <<>>)
    \o CLOSE_BRACE

\* C9 (as claimed): for an object with a "git" key the result is a Git source
\* with that url, with the one ref of highest priority among branch, tag and
\* rev (in that order) when any is given, and with the commit when given.
C9_GitRefPriority ==
    (Called("parse_dependency_source_c") /\ input.kind = "object"
     /\ HasKey(input.members, Field.git)) =>
        out["parse_dependency_source_c"].result = GitSourceText(input.members)

(***************************************************************************)
(* Characters as unsigned char values, for strcmp and the case folding.    *)
(***************************************************************************)
\* the printable characters, codes 32 to 126, in code order (code 96 is
\* written by name)
PrintableChars ==
    <<" ", "!", "\"", "#", "$", "%", "&", "'", "(", ")", "*", "+", ",",
    "-", ".", "/", "0", "1", "2", "3", "4", "5", "6", "7", "8", "9", ":",
    ";", "<", "=", ">", "?", "@", "A", "B", "C", "D", "E", "F", "G", "H",
    "I", "J", "K", "L", "M", "N", "O", "P", "Q", "R", "S", "T", "U", "V",
    "W", "X", "Y", "Z", "[", "\\", "]", "^", "_", "BACKTICK", "a", "b", "c", "d",
    "e", "f", "g", "h", "i", "j", "k", "l", "m", "n", "o", "p", "q", "r",
    "s", "t", "u", "v", "w", "x", "y", "z", "{", "|", "}", "~">>

Ord(c) ==
    IF c = NUL THEN 0
    ELSE IF c = "\t" THEN 9
    ELSE IF c = "\n" THEN 10
    ELSE IF c = "\r" THEN 13
    ELSE 31 + (CHOOSE k \in DOMAIN PrintableChars : PrintableChars[k] = c)

Chr(n) == PrintableChars[n - 31]

\* index of the first position where a and b differ (their NUL included)
first_difference(a, b) ==
    CHOOSE i \in 1..(Min(Len(a), Len(b)) + 1) :
        /\ At(a, i) # At(b, i)
        /\ \A j \in 1..(i - 1) : a[j] = b[j]

code_difference(c, d) == Ord(c) - Ord(d)

differ_at(a, b, k) == code_difference(At(a, k), At(b, k))

\* strcmp(a, b): negative, zero or positive
strcmp(a, b) == IF a = b THEN 0 ELSE differ_at(a, b, first_difference(a, b))

\* index of the first character from i on that is in chars, or of the NUL
SkipUntil(s, i, chars) ==
    CHOOSE k \in i..(Len(s) + 1) :
        /\ At(s, k) \in chars \cup {NUL}
        /\ \A j \in i..(k - 1) : s[j] \notin chars

(***************************************************************************)
(* dep_fingerprint.c                                                       *)
(***************************************************************************)
MAX_JSON_LEN == 65536
MAX_DEPS == 256

\* get_json_field_string from position pos0 on; buf is the result buffer
RECURSIVE get_json_field_string_at(_, _, _, _)
RECURSIVE string_field_here(_, _, _, _)
RECURSIVE string_field_colon(_, _, _, _)
RECURSIVE string_field_value(_, _, _, _)
get_json_field_string_at(s, pos0, field_name, buf) ==
    IF At(s, pos0) = NUL THEN [ret |-> -1, buf |-> buf]
    ELSE string_field_here(s, skip_whitespace(s, pos0), field_name, buf)

\* one pass of the loop, after its skip_whitespace
string_field_here(s, pos, field_name, buf) ==
    IF At(s, pos) = "}" THEN [ret |-> -1, buf |-> buf]
    ELSE IF field_name_at(s, pos, field_name)
    THEN string_field_colon(s, skip_whitespace(s, pos + Len(field_name) + 2),
                            field_name, buf)
    ELSE get_json_field_string_at(s, after_comma(s, skip_to_next_field(s, pos)),
                                  field_name, buf)

\* the field name matched; pos is after the name and the whitespace
string_field_colon(s, pos, field_name, buf) ==
    IF At(s, pos) # ":" THEN get_json_field_string_at(s, pos, field_name, buf)
    ELSE string_field_value(s, skip_whitespace(s, pos + 1), field_name, buf)

\* a value that is not a string is skipped as a field that does not match
string_field_value(s, pos, field_name, buf) ==
    IF At(s, pos) = "\"" THEN parse_json_string(s, pos, buf, DEP_MAX_STRING_LEN)
    ELSE get_json_field_string_at(s, after_comma(s, skip_to_next_field(s, pos)),
                                  field_name, buf)

\* get_json_field_string(json + pos - 1, field_name, result, MAX_STRING_LEN):
\* the content of result afterwards; buf is its content before
get_json_field_string(s, pos, field_name, buf) ==
    get_json_field_string_at(s, pos, field_name, buf).buf

DepField ==
    [type |-> <<"t", "y", "p", "e">>,
     version |-> <<"v", "e", "r", "s", "i", "o", "n">>,
     git_url |-> <<"g", "i", "t", "_", "u", "r", "l">>,
     git_branch |-> <<"g", "i", "t", "_", "b", "r", "a", "n", "c", "h">>,
     commit |-> <<"c", "o", "m", "m", "i", "t">>,
     path |-> <<"p", "a", "t", "h">>,
     checksum |-> <<"c", "h", "e", "c", "k", "s", "u", "m">>,
     hash |-> <<"h", "a", "s", "h">>]

DepType ==
    [registry |-> <<"r", "e", "g", "i", "s", "t", "r", "y">>,
     git |-> <<"g", "i", "t">>,
     path |-> <<"p", "a", "t", "h">>]

DepFormat ==
    [type_open |-> <<"{", "\"", "t", "y", "p", "e", "\"", ":", "\"">>,
     version |-> <<",", "\"", "v", "e", "r", "s", "i", "o", "n", "\"", ":", "\"">>,
     git_url |-> <<",", "\"", "g", "i", "t", "_", "u", "r", "l", "\"", ":", "\"">>,
     git_branch |-> <<",", "\"", "g", "i", "t", "_", "b", "r", "a", "n", "c", "h", "\"", ":", "\"">>,
     commit |-> <<",", "\"", "c", "o", "m", "m", "i", "t", "\"", ":", "\"">>,
     path |-> <<",", "\"", "p", "a", "t", "h", "\"", ":", "\"">>,
     checksum |-> <<",", "\"", "c", "h", "e", "c", "k", "s", "u", "m", "\"", ":", "\"">>,
     hash |-> <<",", "\"", "h", "a", "s", "h", "\"", ":", "\"">>]

SHA256_PREFIX == <<"s", "h", "a", "2", "5", "6", ":">>

\* the string fields of a DepEntry, each with its JSON field name
DepEntryFields ==
    [type |-> DepField.type, version |-> DepField.version, git_url |-> DepField.git_url,
     git_branch |-> DepField.git_branch, commit |-> DepField.commit, path |-> DepField.path,
     checksum |-> DepField.checksum, hash |-> DepField.hash]

\* "Parse fields": slot is what deps[dep_count] holds before
read_dep_entry(s, name, fields, slot) ==
    [f \in DOMAIN DepEntryFields \cup {"name"} |->
        IF f = "name" THEN name
        ELSE get_json_field_string(s, fields, DepEntryFields[f], slot[f])]

\* "Skip to closing brace"
after_closing_brace(s, pos) == IF At(s, pos) = "}" THEN pos + 1 ELSE pos

skip_to_closing_brace(s, pos) == after_closing_brace(s, SkipUntil(s, pos, {"}"}))

\* parse_deps_json from position pos0 on; deps are the entries read so far
\* and slots[k] is what the array of the caller holds at index k - 1 before
RECURSIVE parse_deps_from(_, _, _, _, _)
RECURSIVE parse_dep_name(_, _, _, _, _)
RECURSIVE parse_dep_colon(_, _, _, _, _, _)
RECURSIVE parse_dep_value(_, _, _, _, _, _)
parse_deps_from(s, pos0, deps, slots, max_deps) ==
    IF At(s, pos0) \in {NUL, "}"} \/ Len(deps) >= max_deps THEN deps
    ELSE parse_dep_name(s, SkipWhile(s, pos0, {" ", "\t", ",", "\n"}),
                        deps, slots, max_deps)

\* "Parse dependency name (key)"
parse_dep_name(s, pos, deps, slots, max_deps) ==
    IF At(s, pos) # "\"" THEN deps
    ELSE parse_dep_colon(s, pos + 1, SkipUntil(s, pos + 1, {"\""}),
                         deps, slots, max_deps)

\* the name is s[name_start .. name_end - 1]; "Skip colon"
parse_dep_colon(s, name_start, name_end, deps, slots, max_deps) ==
    IF At(s, name_end) # "\"" THEN deps
    ELSE IF name_end - name_start >= DEP_MAX_STRING_LEN THEN deps
    ELSE parse_dep_value(s, SubSeq(s, name_start, name_end - 1),
                         SkipWhile(s, name_end + 1, {":", " ", "\t"}),
                         deps, slots, max_deps)

\* "Parse dependency value (object)"
parse_dep_value(s, name, pos, deps, slots, max_deps) ==
    IF At(s, pos) # "{" THEN deps
    ELSE parse_deps_from(
             s, skip_to_closing_brace(s, pos + 1),
             Append(deps, read_dep_entry(s, name, pos + 1, slots[Len(deps) + 1])),
             slots, max_deps)

parse_deps_json(json_str, slots, max_deps) ==
    parse_deps_from(json_str, SkipWhile(json_str, 1, {"{", " ", "\t", "\n"}),
                    <<>>, slots, max_deps)

compare_deps_reversed(dep_a, dep_b) == strcmp(dep_b.name, dep_a.name)

compare_deps(dep_a, dep_b) == strcmp(dep_a.name, dep_b.name)

\* c - 'A' + 'a' when 'A' <= c <= last, for the character c of code code
fold_case(c, code, last) ==
    IF code >= 65 /\ code <= last THEN Chr(code + 32) ELSE c

\* 'A' .. 'Z'
to_lower(c) == fold_case(c, Ord(c), 90)

\* 'A' .. 'F'
hex_to_lower(c) == fold_case(c, Ord(c), 70)

\* "sha256:" followed by hex: the part after the prefix in lower case
lowercase_hex(value) ==
    IF StartsWith(value, SHA256_PREFIX)
    THEN [i \in 1..Len(value) |-> IF i > 7 THEN hex_to_lower(value[i]) ELSE value[i]]
    ELSE value

normalize_dep_entry(dep) ==
    [dep EXCEPT !.type = [i \in 1..Len(dep.type) |-> to_lower(dep.type[i])],
                !.checksum = lowercase_hex(dep.checksum),
                !.hash = lowercase_hex(dep.hash)]

field_text(label, value) ==
    IF value # <<>> THEN label \o value \o QUOTE ELSE <<>>

serialize_dep_json(dep) ==
    DepFormat.type_open \o dep.type \o QUOTE
    \o (IF dep.type = DepType.registry
        THEN field_text(DepFormat.version, dep.version)
             \o field_text(DepFormat.checksum, dep.checksum)
        ELSE IF dep.type = DepType.git
        THEN field_text(DepFormat.git_url, dep.git_url)
             \o field_text(DepFormat.git_branch, dep.git_branch)
             \o field_text(DepFormat.commit, dep.commit)
        ELSE IF dep.type = DepType.path
        THEN field_text(DepFormat.path, dep.path) \o field_text(DepFormat.hash, dep.hash)
        ELSE <<>>)
    \o CLOSE_BRACE

\* qsort(deps, dep_count, sizeof(DepEntry), compare_deps); the names of a
\* dependency set are distinct, so the sorted order is unique
sorts_before(order, i, j) == order < 0 \/ (order = 0 /\ i <= j)

least_dep(deps) ==
    CHOOSE i \in DOMAIN deps :
        \A j \in DOMAIN deps : sorts_before(compare_deps(deps[i], deps[j]), i, j)

without_dep(deps, i) ==
    [k \in 1..(Len(deps) - 1) |-> IF k < i THEN deps[k] ELSE deps[k + 1]]

RECURSIVE sort_deps(_)
RECURSIVE sort_deps_from(_, _)
sort_deps(deps) ==
    IF deps = <<>> THEN <<>> ELSE sort_deps_from(deps, least_dep(deps))

sort_deps_from(deps, least) == <<deps[least]>> \o sort_deps(without_dep(deps, least))

\* the memcpy of one serialized entry, when it fits
append_dep_json(result, dep_json, result_cap) ==
    IF Len(result) + Len(dep_json) < result_cap THEN result \o dep_json ELSE result

\* the serialization loop of normalize_dependency_set_c from entry i on
RECURSIVE serialize_deps(_, _, _, _)
serialize_deps(deps, i, result, result_cap) ==
    IF i > Len(deps) \/ Len(result) >= result_cap - 200 THEN result
    ELSE serialize_deps(
             deps, i + 1,
             append_dep_json(result \o (IF i > 1 THEN <<",">> ELSE <<>>)
                                    \o QUOTE \o deps[i].name \o QUOTE \o <<":">>,
                             serialize_dep_json(deps[i]), result_cap),
             result_cap)

normalize_deps(deps) == [i \in DOMAIN deps |-> normalize_dep_entry(deps[i])]

normalize_dependency_set_c(deps_json, slots, result_cap) ==
    Outcome(0, serialize_deps(
                   sort_deps(normalize_deps(parse_deps_json(deps_json, slots, MAX_DEPS))),
                   1, <<"{">>, result_cap)
               \o CLOSE_BRACE)

\* sha256_init, sha256_update, sha256_final and the hex rendering: the digest
\* is a function of the bytes hashed and of nothing else, and distinct byte
\* strings have distinct digests
sha256_hex(bytes) == [sha256 |-> bytes]

fingerprint_of(normalized) ==
    IF normalized.ret # 0 THEN Outcome(-1, <<>>)
    ELSE Outcome(0, sha256_hex(normalized.result))

compute_resolution_fingerprint_c(deps_json, slots) ==
    fingerprint_of(normalize_dependency_set_c(deps_json, slots, MAX_JSON_LEN))

(***************************************************************************)
(* Specification of the canonicalizer: calls of normalize_dependency_set_c *)
(* and compute_resolution_fingerprint_c on the JSON encoding of a          *)
(* dependency set, on the output of an earlier call, and on the encoding   *)
(* of the same set with its entries in another order.                      *)
(***************************************************************************)
\* DepEntry deps[MAX_DEPS] is an automatic array that is never initialized:
\* before a call each element holds zero bytes or what an earlier call left
\* in that part of the stack
ZeroEntry ==
    [name |-> <<>>, type |-> <<>>, version |-> <<>>, git_url |-> <<>>,
     git_branch |-> <<>>, commit |-> <<>>, path |-> <<>>, checksum |-> <<>>,
     hash |-> <<>>]

LeftoverEntry ==
    [name |-> <<"o">>, type |-> DepType.git, version |-> <<"9">>, git_url |-> <<"w">>,
     git_branch |-> <<"o">>, commit |-> <<"k">>, path |-> <<"q">>,
     checksum |-> SHA256_PREFIX \o <<"9">>, hash |-> SHA256_PREFIX \o <<"7">>]

StaleEntries == {ZeroEntry, LeftoverEntry}

FingerprintNames == {<<"a">>, <<"z">>}

StaleSlots == [1..Cardinality(FingerprintNames) -> StaleEntries]

FingerprintSources ==
    {[type |-> <<"r", "e", "g", "i", "s", "t", "r", "y">>, fields |-> <<<<DepField.version, <<"1", ".", "0", ".", "0">>>>>>],
     [type |-> <<"r", "e", "g", "i", "s", "t", "r", "y">>, fields |-> <<<<DepField.version, <<"2", ".", "0", ".", "0">>>>, <<DepField.checksum, <<"s", "h", "a", "2", "5", "6", ":", "A", "B">>>>>>],
     [type |-> <<"R", "e", "g", "i", "s", "t", "r", "y">>, fields |-> <<<<DepField.version, <<"1", ".", "0", ".", "0">>>>, <<DepField.checksum, <<"s", "h", "a", "2", "5", "6", ":", "a", "b">>>>>>],
     [type |-> <<"r", "e", "g", "i", "s", "t", "r", "y">>, fields |-> <<<<DepField.version, <<"a", "\\", "b">>>>, <<DepField.checksum, <<"s", "h", "a", "2", "5", "6", ":", "a", "b">>>>>>],
     [type |-> <<"g", "i", "t">>, fields |-> <<<<DepField.git_url, <<"u">>>>>>],
     [type |-> <<"g", "i", "t">>, fields |-> <<<<DepField.git_url, <<"u">>>>, <<DepField.git_branch, <<"m">>>>, <<DepField.commit, <<"c">>>>>>],
     [type |-> <<"p", "a", "t", "h">>, fields |-> <<<<DepField.path, <<"p">>>>, <<DepField.hash, <<"s", "h", "a", "2", "5", "6", ":", "C", "d">>>>>>],
     [type |-> <<"p", "a", "t", "h">>, fields |-> <<<<DepField.path, <<"p", "}">>>>, <<DepField.hash, <<"h">>>>>>]}

\* a dependency set in the order its encoder writes it: <<name, source>>
DependencySets ==
    UNION {{[k \in 1..n |-> <<order[k], sources[k]>>] :
               order \in {o \in KeyOrders(FingerprintNames, n) : Len(o) = n},
               sources \in [1..n -> FingerprintSources]} :
           n \in 0..Cardinality(FingerprintNames)}

Reorderings(entries) ==
    {[k \in DOMAIN entries |-> entries[p[k]]] :
        p \in {q \in [DOMAIN entries -> DOMAIN entries] : Injective(q)}}

SourceObject(source, gap) ==
    JsonObject(<<<<DepField.type, source.type>>>> \o source.fields, gap)

RECURSIVE JsonEntries(_, _, _)
JsonEntries(entries, gap, k) ==
    IF k > Len(entries) THEN <<>>
    ELSE (IF k > 1 THEN <<",">> \o gap ELSE <<>>)
         \o JsonString(entries[k][1]) \o <<":">> \o gap
         \o SourceObject(entries[k][2], gap)
         \o JsonEntries(entries, gap, k + 1)

JsonSet(entries, gap) == <<"{">> \o JsonEntries(entries, gap, 1) \o CLOSE_BRACE


FingerprintInputs ==
    {[entries |-> entries, json |-> JsonSet(entries, gap),
      reordered |-> JsonSet(other, gap)] :
        <<entries, other, gap>> \in
            UNION {{e} \X Reorderings(e) \X {<<>>, <<" ">>} : e \in DependencySets}}

\* values of an entry that are not an object: a number, a string, an array
\* and null
NotAnObject ==
    {<<"5">>, JsonString(<<"1", ".", "0">>), <<"[", "1", "]">>, <<"n", "u", "l", "l">>}

\* the encoding of a set in which one entry, named "m", has a value that is
\* not an object; the entry stands before or after the entries of a
\* dependency set
MalformedSet(entries, value, first) ==
    LET member == JsonString(<<"m">>) \o <<":">> \o value
        comma == IF entries = <<>> THEN <<>> ELSE <<",">>
    IN  <<"{">>
        \o (IF first THEN member \o comma ELSE <<>>)
        \o JsonEntries(entries, <<>>, 1)
        \o (IF first THEN <<>> ELSE comma \o member)
        \o CLOSE_BRACE

MalformedSetInputs ==
    {[entries |-> e, json |-> MalformedSet(e, v, first),
      reordered |-> MalformedSet(e, v, ~first)] :
        <<e, v, first>> \in
            {d \in DependencySets : Len(d) <= 1} \X NotAnObject \X BOOLEAN}

InitFingerprint ==
    /\ input \in FingerprintInputs \cup MalformedSetInputs
    /\ out = NoCalls

Normalize ==
    /\ out = NoCalls
    /\ \E slots \in StaleSlots :
           Record("normalize_dependency_set_c",
                  normalize_dependency_set_c(input.json, slots, RESULT_CAP))
    /\ UNCHANGED input

\* normalize_dependency_set_c on the output of the first call
NormalizeAgain ==
    /\ DOMAIN out = {"normalize_dependency_set_c"}
    /\ \E slots \in StaleSlots :
           Record("normalize_dependency_set_c(normalized)",
                  normalize_dependency_set_c(out["normalize_dependency_set_c"].result,
                                             slots, RESULT_CAP))
    /\ UNCHANGED input

Fingerprint ==
    /\ out = NoCalls
    /\ \E slots \in StaleSlots :
           Record("compute_resolution_fingerprint_c",
                  compute_resolution_fingerprint_c(input.json, slots))
    /\ UNCHANGED input

\* a second call on the same input
FingerprintAgain ==
    /\ DOMAIN out = {"compute_resolution_fingerprint_c"}
    /\ \E slots \in StaleSlots :
           Record("compute_resolution_fingerprint_c(again)",
                  compute_resolution_fingerprint_c(input.json, slots))
    /\ UNCHANGED input

\* a call on the same set with its entries written in another order
FingerprintReordered ==
    /\ DOMAIN out = {"compute_resolution_fingerprint_c"}
    /\ \E slots \in StaleSlots :
           Record("compute_resolution_fingerprint_c(reordered)",
                  compute_resolution_fingerprint_c(input.reordered, slots))
    /\ UNCHANGED input

NextFingerprint ==
    \/ Normalize
    \/ NormalizeAgain
    \/ Fingerprint
    \/ FingerprintAgain
    \/ FingerprintReordered

SpecFingerprint == InitFingerprint /\ [][NextFingerprint]_vars

\* C5 (as claimed): the fingerprint of a dependency set is the same on
\* repeated calls and does not depend on the order in which the entries of
\* the set appear in the input.
C5_FingerprintDeterministic ==
    /\ Called("compute_resolution_fingerprint_c(again)") =>
           out["compute_resolution_fingerprint_c(again)"]
               = out["compute_resolution_fingerprint_c"]
    /\ Called("compute_resolution_fingerprint_c(reordered)") =>
           out["compute_resolution_fingerprint_c(reordered)"]
               = out["compute_resolution_fingerprint_c"]

\* C6 (as claimed): normalizing the output of normalize_dependency_set_c
\* returns that output unchanged, for every field value the set can carry.
C6_NormalizeIdempotent ==
    Called("normalize_dependency_set_c(normalized)") =>
        out["normalize_dependency_set_c(normalized)"]
            = out["normalize_dependency_set_c"]

\* C18 (as claimed): when an entry of the input cannot be parsed (its value
\* is not an object), normalize_dependency_set_c and
\* compute_resolution_fingerprint_c return a failure, not a success result
\* built from the other entries.
C18_ParseFailureReturned ==
    input \in MalformedSetInputs =>
        /\ Called("normalize_dependency_set_c") =>
               out["normalize_dependency_set_c"].ret # 0
        /\ Called("compute_resolution_fingerprint_c") =>
               out["compute_resolution_fingerprint_c"].ret # 0


(***************************************************************************)
(* lockfile.c.  Its parse_deps_json, get_json_field_string and             *)
(* compare_deps (lockfile.c:83-191) are copies of those of                 *)
(* dep_fingerprint.c and are modelled by the same operators.               *)
(***************************************************************************)
MAX_TOML_LEN == 65536

LockText ==
    [section |-> <<"[", "d", "e", "p", "e", "n", "d", "e", "n", "c", "i", "e", "s", "]">>,
     header |-> <<"[", "d", "e", "p", "e", "n", "d", "e", "n", "c", "i", "e", "s", "]", "\n">>,
     string_open |-> <<" ", "=", " ", "\"">>,
     string_close |-> <<"\"", "\n">>,
     version_open |-> <<" ", "=", " ", "{", " ", "v", "e", "r", "s", "i", "o", "n", " ", "=", " ", "\"">>,
     checksum |-> <<"\"", ",", " ", "c", "h", "e", "c", "k", "s", "u", "m", " ", "=", " ", "\"">>,
     table_end |-> <<"\"", " ", "}", "\n">>,
     git_open |-> <<" ", "=", " ", "{", " ", "g", "i", "t", " ", "=", " ", "\"">>,
     branch |-> <<",", " ", "b", "r", "a", "n", "c", "h", " ", "=", " ", "\"">>,
     commit |-> <<",", " ", "c", "o", "m", "m", "i", "t", " ", "=", " ", "\"">>,
     path_open |-> <<" ", "=", " ", "{", " ", "p", "a", "t", "h", " ", "=", " ", "\"">>,
     hash |-> <<",", " ", "h", "a", "s", "h", " ", "=", " ", "\"">>,
     close |-> <<" ", "}", "\n">>,
     find_git |-> <<"g", "i", "t">>,
     find_git_value |-> <<"g", "i", "t", " ", "=", " ", "\"">>,
     find_path |-> <<"p", "a", "t", "h">>,
     find_path_value |-> <<"p", "a", "t", "h", " ", "=", " ", "\"">>,
     find_version |-> <<"v", "e", "r", "s", "i", "o", "n">>,
     find_version_value |-> <<"v", "e", "r", "s", "i", "o", "n", " ", "=", " ", "\"">>,
     entry_type |-> <<"\"", ":", "{", "\"", "t", "y", "p", "e", "\"", ":", "\"">>]

\* "if (needed > 0 && pos + needed < result_cap) pos += needed" after an
\* snprintf of text at the end of result
append_text(result, text, result_cap) ==
    IF Len(text) > 0 /\ Len(result) + Len(text) < result_cap
    THEN result \o text ELSE result

\* an optional key of an inline table
append_key(result, label, value, result_cap) ==
    IF value # <<>> THEN append_text(result, label \o value \o QUOTE, result_cap)
    ELSE result

\* " }\n"
close_table(result, result_cap) ==
    IF Len(result) + 3 < result_cap THEN result \o LockText.close ELSE result

\* "Write each dependency": the body of the loop for one entry
write_dependency(result, dep, result_cap) ==
    IF dep.type = DepType.registry
    THEN (IF dep.checksum # <<>>
          THEN append_text(result,
                           dep.name \o LockText.version_open \o dep.version
                               \o LockText.checksum \o dep.checksum \o LockText.table_end,
                           result_cap)
          ELSE append_text(result,
                           dep.name \o LockText.string_open \o dep.version
                               \o LockText.string_close,
                           result_cap))
    ELSE IF dep.type = DepType.git
    THEN close_table(
             append_key(
                 append_key(
                     append_text(result,
                                 dep.name \o LockText.git_open \o dep.git_url \o QUOTE,
                                 result_cap),
                     LockText.branch, dep.git_branch, result_cap),
                 LockText.commit, dep.commit, result_cap),
             result_cap)
    ELSE IF dep.type = DepType.path
    THEN close_table(
             append_key(
                 append_text(result,
                             dep.name \o LockText.path_open \o dep.path \o QUOTE,
                             result_cap),
                 LockText.hash, dep.hash, result_cap),
             result_cap)
    ELSE result

\* the loop over the sorted entries, which ends when the buffer is nearly full
write_dependencies(deps, result, result_cap) ==
    LET write(acc, i) ==
            IF Len(acc) < result_cap - 200
            THEN write_dependency(acc, deps[i], result_cap) ELSE acc
    IN  FoldRange(write, result, 1, Len(deps))

toml_header(result_cap) == IF 20 < result_cap THEN LockText.header ELSE <<>>

generate_lockfile_c(deps_json, slots, result_cap) ==
    Outcome(0, write_dependencies(sort_deps(parse_deps_json(deps_json, slots, MAX_DEPS)),
                                  toml_header(result_cap), result_cap))

\* strncmp(s + k - 1, needle, strlen(needle)) == 0
matches_at(s, k, needle) ==
    /\ k + Len(needle) - 1 <= Len(s)
    /\ SubSeq(s, k, k + Len(needle) - 1) = needle

\* strstr(s + from - 1, needle): the index of the first match, 0 for NULL
strstr(s, from, needle) ==
    IF \E k \in from..Len(s) : matches_at(s, k, needle)
    THEN CHOOSE k \in from..Len(s) :
             /\ matches_at(s, k, needle)
             /\ \A j \in from..(k - 1) : ~matches_at(s, j, needle)
    ELSE 0

\* the text from start up to the next '"', kept when it fits; old otherwise
copy_to_quote(s, start, end, old) ==
    IF end - start < DEP_MAX_STRING_LEN THEN SubSeq(s, start, end - 1) ELSE old

\* the value after key = " found by strstr at found, when found
value_after(s, found, key_len, old) ==
    IF found = 0 THEN old
    ELSE copy_to_quote(s, found + key_len,
                       SkipUntil(s, found + key_len, {"\""}), old)

\* "Dict: name = { ... }": the entry written into slot; pos is at the '{'
toml_table(s, name, pos, slot) ==
    IF strstr(s, pos, LockText.find_git) # 0
    THEN [slot EXCEPT !.name = name, !.type = DepType.git,
                      !.git_url = value_after(s, strstr(s, pos, LockText.find_git_value),
                                              7, slot.git_url)]
    ELSE IF strstr(s, pos, LockText.find_path) # 0
    THEN [slot EXCEPT !.name = name, !.type = DepType.path,
                      !.path = value_after(s, strstr(s, pos, LockText.find_path_value),
                                           8, slot.path)]
    ELSE IF strstr(s, pos, LockText.find_version) # 0
    THEN [slot EXCEPT !.name = name, !.type = DepType.registry,
                      !.version = value_after(s, strstr(s, pos, LockText.find_version_value),
                                              11, slot.version)]
    ELSE [slot EXCEPT !.name = name]

\* "Simple string: name = "version""; the text is s[start .. end - 1]
toml_string(s, name, start, end, slot, st) ==
    IF At(s, end) = "\"" /\ end - start < DEP_MAX_STRING_LEN
    THEN [st EXCEPT !.deps = Append(@, [slot EXCEPT !.name = name,
                                                    !.version = SubSeq(s, start, end - 1),
                                                    !.type = DepType.registry]),
                    !.pos = end + 1]
    ELSE [st EXCEPT !.pos = end + 1]

\* "Parse value (string or dict)"; pos is after "Skip to value"
toml_value(s, name, pos, slot, st) ==
    IF At(s, pos) = "\""
    THEN toml_string(s, name, pos + 1, SkipUntil(s, pos + 1, {"\""}), slot, st)
    ELSE IF At(s, pos) = "{"
    THEN [st EXCEPT !.deps = Append(@, toml_table(s, name, pos, slot)),
                    !.pos = pos + 1]
    ELSE [st EXCEPT !.pos = pos + 1]

\* "Parse dependency line"; the name is s[name_start .. name_end - 1]
toml_line(s, name_start, name_end, slots, st) ==
    IF name_end - name_start > 0 /\ name_end - name_start < DEP_MAX_STRING_LEN
    THEN toml_value(s, SubSeq(s, name_start, name_end - 1),
                    SkipWhile(s, name_end, {" ", "=", "\t"}),
                    slots[Len(st.deps) + 1], st)
    ELSE [st EXCEPT !.pos = name_end + 1]

\* one pass of the loop of parse_toml_dependencies, made when the scan
\* stands at position i; st.stop is set by the break and by the loop test
toml_step(s, slots, max_deps, st, i) ==
    IF st.stop \/ i # st.pos THEN st
    ELSE IF Len(st.deps) >= max_deps THEN [st EXCEPT !.stop = TRUE]
    ELSE IF matches_at(s, i, LockText.section)
    THEN [st EXCEPT !.in_dependencies = TRUE, !.pos = i + 14]
    ELSE IF s[i] = "[" /\ st.in_dependencies THEN [st EXCEPT !.stop = TRUE]
    ELSE IF st.in_dependencies /\ s[i] \notin {"\n", " ", "\t"}
    THEN toml_line(s, i, SkipUntil(s, i, {" ", "=", "\n"}), slots, st)
    ELSE [st EXCEPT !.pos = i + 1]

\* slots[k] is what the array of the caller holds at index k - 1 before
parse_toml_dependencies(toml_text, slots, max_deps) ==
    LET step(st, i) == toml_step(toml_text, slots, max_deps, st, i)
    IN  FoldRange(step,
                  [pos |-> 1, deps |-> <<>>, in_dependencies |-> FALSE, stop |-> FALSE],
                  1, Len(toml_text)).deps

\* "Write dependency name and value" and "Add type-specific fields"
entry_json(result, dep, result_cap) ==
    append_key(
      append_key(
        append_key(
          append_key(
            append_key(
              append_key(
                append_key(
                  append_text(result,
                              QUOTE \o dep.name \o LockText.entry_type \o dep.type \o QUOTE,
                              result_cap),
                  DepFormat.version, dep.version, result_cap),
                DepFormat.git_url, dep.git_url, result_cap),
              DepFormat.git_branch, dep.git_branch, result_cap),
            DepFormat.commit, dep.commit, result_cap),
          DepFormat.path, dep.path, result_cap),
        DepFormat.checksum, dep.checksum, result_cap),
      DepFormat.hash, dep.hash, result_cap)

\* '{' and '}' are written when two more bytes fit
append_brace(result, brace, result_cap) ==
    IF Len(result) + 2 < result_cap THEN result \o brace ELSE result

append_comma(result, i, result_cap) ==
    IF i > 1 /\ Len(result) < result_cap - 1 THEN result \o <<",">> ELSE result

\* "Build JSON output": the loop over the entries read
entries_json(deps, result, result_cap) ==
    LET write(acc, i) ==
            IF Len(acc) < result_cap - 200
            THEN append_brace(entry_json(append_comma(acc, i, result_cap),
                                         deps[i], result_cap),
                              CLOSE_BRACE, result_cap)
            ELSE acc
    IN  FoldRange(write, result, 1, Len(deps))

read_lockfile_c(lockfile_text, slots, result_cap) ==
    Outcome(0, append_brace(
                   entries_json(parse_toml_dependencies(lockfile_text, slots, MAX_DEPS),
                                append_brace(<<>>, <<"{">>, result_cap), result_cap),
                   CLOSE_BRACE, result_cap))

(***************************************************************************)
(* Specification of the lockfile codec: generate_lockfile_c on the JSON    *)
(* encoding of a dependency set, then read_lockfile_c on the text that     *)
(* call produced.                                                          *)
(***************************************************************************)
\* Registry (version, optional checksum), Git (url, optional branch and
\* commit) and Path (path, optional hash) sources
LockfileSources ==
    {[type |-> DepType.registry, fields |-> <<<<DepField.version, <<"1", ".", "0", ".", "0">>>>>>],
     [type |-> DepType.registry, fields |-> <<<<DepField.version, <<"1", ".", "0", ".", "0">>>>, <<DepField.checksum, <<"c", "1">>>>>>],
     [type |-> DepType.git, fields |-> <<<<DepField.git_url, <<"u">>>>>>],
     [type |-> DepType.git, fields |-> <<<<DepField.git_url, <<"u">>>>, <<DepField.git_branch, <<"m">>>>, <<DepField.commit, <<"k">>>>>>],
     [type |-> DepType.path, fields |-> <<<<DepField.path, <<"p">>>>>>],
     [type |-> DepType.path, fields |-> <<<<DepField.path, <<"p">>>>, <<DepField.hash, <<"h">>>>>>]}

LockfileNames == {<<"a">>, <<"z">>}

\* dependency sets, written in every order of their names
LockfileSets ==
    UNION {{[k \in 1..n |-> <<order[k], sources[k]>>] :
               order \in {o \in KeyOrders(LockfileNames, n) : Len(o) = n},
               sources \in [1..n -> LockfileSources]} :
           n \in 0..Cardinality(LockfileNames)}

LockfileInputs ==
    {[entries |-> entries, json |-> JsonSet(entries, gap)] :
        entries \in LockfileSets, gap \in {<<>>, <<" ">>}}

\* DepEntry deps[MAX_DEPS] of generate_lockfile_c and of read_lockfile_c is
\* an automatic array that is never initialized: zero bytes, or what an
\* earlier call left in that part of the stack
LockfileSlots == {[k \in 1..MAX_DEPS |-> e] : e \in StaleEntries}

InitLockfile ==
    /\ input \in LockfileInputs
    /\ out = NoCalls

GenerateLockfile ==
    /\ out = NoCalls
    /\ \E slots \in LockfileSlots :
           Record("generate_lockfile_c",
                  generate_lockfile_c(input.json, slots, MAX_TOML_LEN))
    /\ UNCHANGED input

\* read_lockfile_c on the text generate_lockfile_c returned
ReadLockfile ==
    /\ DOMAIN out = {"generate_lockfile_c"}
    /\ \E slots \in LockfileSlots :
           Record("read_lockfile_c",
                  read_lockfile_c(out["generate_lockfile_c"].result, slots,
                                  MAX_JSON_LEN))
    /\ UNCHANGED input

NextLockfile ==
    \/ GenerateLockfile
    \/ ReadLockfile

SpecLockfile == InitLockfile /\ [][NextLockfile]_vars

\* the fields of a decoded entry, in the order read_lockfile_c writes them
DecodedFields ==
    <<DepField.version, DepField.git_url, DepField.git_branch, DepField.commit, DepField.path, DepField.checksum, DepField.hash>>

DecodedField(fields, key) ==
    IF HasKey(fields, key)
    THEN <<",">> \o JsonString(key) \o <<":">> \o JsonString(ValueAt(fields, key))
    ELSE <<>>

\* one entry with its name, its type and every field it defines
DecodedEntry(name, source) ==
    LET field(acc, i) == acc \o DecodedField(source.fields, DecodedFields[i])
    IN  FoldRange(field,
                  JsonString(name) \o <<":", "{">> \o JsonString(DepField.type)
                      \o <<":">> \o JsonString(source.type),
                  1, Len(DecodedFields)) \o CLOSE_BRACE

\* the entries of a set in the order of their names
ByName(entries) ==
    CHOOSE sorted \in Reorderings(entries) :
        \A i, j \in DOMAIN sorted :
            i < j => strcmp(sorted[i][1], sorted[j][1]) < 0

DecodedSet(entries) ==
    LET entry(acc, i) ==
            acc \o (IF i > 1 THEN <<",">> ELSE <<>>)
                \o DecodedEntry(entries[i][1], entries[i][2])
    IN  FoldRange(entry, <<"{">>, 1, Len(entries)) \o CLOSE_BRACE

\* C7 (as claimed): the lockfile round trip is lossless: read_lockfile_c on
\* the output of generate_lockfile_c for a set of Registry, Git and Path
\* entries yields exactly the entries of the set, each with the same name,
\* the same type and every field the set defined.
C7_RoundTripLossless ==
    Called("read_lockfile_c") =>
        out["read_lockfile_c"] = Outcome(0, DecodedSet(ByName(input.entries)))

(***************************************************************************)
(* version.c: version_select_c                                             *)
(***************************************************************************)
MAX_VERSIONS == 256

\* The quoted strings of versions_json from pos on, in text order.  In the
\* loops of the "*", ">=" and "~>" branches (in_array) white space and
\* commas are skipped and a ']' ends the scan; the loop of the exact branch
\* looks at every '"'.  A quote that is never closed ends the scan.
RECURSIVE quoted_strings(_, _, _)
quoted_strings(json, pos, in_array) ==
    LET p == IF in_array THEN SkipWhile(json, pos, {" ", "\t", ",", "\n"})
             ELSE SkipUntil(json, pos, {"\""})
        end == SkipUntil(json, p + 1, {"\""})
    IN  IF At(json, p) = NUL \/ (in_array /\ At(json, p) = "]") THEN <<>>
        ELSE IF At(json, p) # "\"" THEN quoted_strings(json, p + 1, in_array)
        ELSE IF At(json, end) # "\"" THEN <<>>
        ELSE <<SubSeq(json, p + 1, end - 1)>> \o quoted_strings(json, end + 1, in_array)

\* versions[]: the strings of the array, after "Skip opening bracket", that
\* pass the test of the branch (kept), while version_count < 256
matching_versions(kept) == SubSeq(kept, 1, Min(Len(kept), MAX_VERSIONS))

\* "Find latest version by comparing all" and the text written for it
latest_version(versions, result_cap) ==
    LET later(latest, i) ==
            IF version_compare_c(versions[i], latest) > 0 THEN versions[i] ELSE latest
    IN  IF Len(versions) > 0
        THEN (IF Len(FoldRange(later, versions[1], 2, Len(versions))) + 5 < result_cap
              THEN <<"\"">> \o FoldRange(later, versions[1], 2, Len(versions)) \o <<"\"">>
              ELSE <<>>)
        ELSE IF 4 < result_cap THEN <<"n", "u", "l", "l">> ELSE <<>>

\* prefix[64] of the "~>" branch: the text before the second dot
select_prefix(base_version, first_dot) ==
    LET second_dot == strchr(From(base_version, first_dot + 1), ".")
        prefix_len == IF second_dot > 0 THEN first_dot + second_dot - 1
                      ELSE Len(base_version)
    IN  IF prefix_len < PREFIX_SIZE THEN SubSeq(base_version, 1, prefix_len) ELSE <<>>

version_starts_with(version, prefix) ==
    Len(version) >= Len(prefix) /\ strncmp_eq(version, prefix, Len(prefix))

\* the result buffer of version_select_c (the return code is 0)
version_select_c(constraint, versions_json, result_cap) ==
    LET base_version == From(constraint, SkipWhile(constraint, 3, {" ", "\t"}))
        array == quoted_strings(versions_json,
                                SkipWhile(versions_json, 1, {"[", " ", "\t", "\n"}), TRUE)
        any(v) == TRUE
        at_least(v) == version_compare_c(v, base_version) >= 0
        prefixed(v) ==
            version_starts_with(v, select_prefix(base_version,
                                                 strchr(base_version, ".")))
        exact(v) == Len(v) = Len(constraint) /\ strncmp_eq(v, constraint, Len(constraint))
    IN  IF strcmp_eq(constraint, <<"*">>)
        THEN latest_version(matching_versions(SelectSeq(array, any)), result_cap)
        ELSE IF strncmp_eq(constraint, <<">", "=">>, 2)
        THEN latest_version(matching_versions(SelectSeq(array, at_least)), result_cap)
        ELSE IF strncmp_eq(constraint, <<"~", ">">>, 2)
        THEN (IF strchr(base_version, ".") > 0
              THEN latest_version(matching_versions(SelectSeq(array, prefixed)), result_cap)
              ELSE latest_version(<<>>, result_cap))
        ELSE IF SelectSeq(quoted_strings(versions_json, 1, FALSE), exact) # <<>>
        THEN (IF Len(constraint) + 5 < result_cap
              THEN <<"\"">> \o constraint \o <<"\"">> ELSE <<>>)
        ELSE latest_version(<<>>, result_cap)

(***************************************************************************)
(* Version selection: inputs, calls and properties                         *)
(***************************************************************************)
SelectVersions ==
    {Dot3(1, 0, 0), Dot3(1, 5, 0), Dot3(2, 0, 0), Dot3(1, 0, 9), Dot2(1, 0)}

SelectConstraints ==
    {<<"*">>, <<">", "=">> \o Dot3(1, 0, 0), <<">", "=", " ">> \o Dot3(1, 5, 0),
     <<">", "=">> \o Dot3(3, 0, 0), Pessimistic2(1, 0), Pessimistic3(1, 0, 5),
     Pessimistic2(2, 1), <<"~", ">", "1">>, Dot3(1, 0, 0), Dot3(2, 0, 0), Dot3(3, 0, 0)}

MaxCandidates == 3

CandidateLists == UNION {[1..n -> SelectVersions] : n \in 0..MaxCandidates}

\* the JSON array of a list of version strings
JsonArray(list, gap) ==
    LET element(acc, i) ==
            acc \o (IF i > 1 THEN <<",">> \o gap ELSE <<>>) \o JsonString(list[i])
    IN  FoldRange(element, <<"[">>, 1, Len(list)) \o <<"]">>

SelectInputs ==
    {[constraint |-> c, candidates |-> l, json |-> JsonArray(l, gap)] :
        c \in SelectConstraints, l \in CandidateLists, gap \in {<<>>, <<" ">>}}

InitSelect ==
    /\ input \in SelectInputs
    /\ out = NoCalls

VersionSelect ==
    /\ out = NoCalls
    /\ Record("version_select_c",
              Outcome(0, version_select_c(input.constraint, input.json, RESULT_CAP)))
    /\ UNCHANGED input

NextSelect == VersionSelect

SpecSelect == InitSelect /\ [][NextSelect]_vars

\* the candidates for which version_satisfies_c is true
Satisfying(candidates, constraint) ==
    {c \in Range(candidates) : version_satisfies_c(c, constraint) = 1}

\* C11 (as claimed): version_select_c returns null exactly when no
\* candidate satisfies the constraint (version_satisfies_c), and otherwise
\* returns a satisfying candidate than which no satisfying candidate
\* compares greater (version_compare_c).
C11_SelectAgreesWithSatisfies ==
    Called("version_select_c") =>
        LET chosen == out["version_select_c"].result
            sat == Satisfying(input.candidates, input.constraint)
        IN  /\ (chosen = <<"n", "u", "l", "l">>) <=> (sat = {})
            /\ sat # {} =>
                 \E c \in sat :
                    /\ chosen = JsonString(c)
                    /\ \A d \in sat : version_compare_c(d, c) <= 0

(***************************************************************************)
(* Version comparison: inputs, calls and properties                        *)
(***************************************************************************)
\* pre-release suffixes, each matching -[A-Za-z0-9.-]+
Suffixes == {<<"-", "r", "c">>, <<"-", "r", "c", ".", "1">>, <<"-", "b", "e", "t", "a", "-", "2">>, <<"-", "0", ".", "9">>, <<"-", "1">>}

NumericVersions == {Dot3(x, y, z) : x \in {1, 2}, y \in {0, 1}, z \in {0, 1}}

\* versions with fewer or more components, and malformed ones
OtherVersions ==
    {<<"1", ".", "0">>,
     <<"1", ".", "2">>,
     <<"1", ".", "1", "0">>,
     <<"2">>,
     <<"1", ".", ".", "2">>,
     <<"1", ".", "0", ".", "2">>,
     <<"1", ".", "x">>,
     <<"1", ".", "2", "x">>,
     <<".", "1">>,
     <<"1", ".", "-", "2">>,
     <<>>}

CompareVersions ==
    NumericVersions
    \cup {Dot3(1, 0, 0) \o s : s \in Suffixes}
    \cup {Dot3(2, 1, 1) \o s : s \in Suffixes}
    \cup OtherVersions

InitCompare ==
    /\ input \in [v1 : CompareVersions, v2 : CompareVersions]
    /\ out = NoCalls

VersionCompare ==
    /\ out = NoCalls
    /\ Record("version_compare_c", Outcome(version_compare_c(input.v1, input.v2), <<>>))
    /\ UNCHANGED input

NextCompare == VersionCompare

SpecCompare == InitCompare /\ [][NextCompare]_vars

\* the numeric version X.Y.Z of a version text X.Y.Z-suffix, <<>> when the
\* text is not of that form
NumericCore(v) ==
    IF v \in NumericVersions THEN v
    ELSE IF \E n \in NumericVersions, s \in Suffixes : v = n \o s
    THEN CHOOSE n \in NumericVersions : \E s \in Suffixes : v = n \o s
    ELSE <<>>

\* C12 (as claimed): version_compare_c ignores pre-release suffixes: two
\* versions with the same numeric components X.Y.Z compare equal, whatever
\* suffix either of them carries.
C12_SuffixIgnored ==
    Called("version_compare_c") =>
        ((NumericCore(input.v1) # <<>> /\ NumericCore(input.v1) = NumericCore(input.v2))
            => out["version_compare_c"].ret = 0)

\* the texts between the dots of v, empty ones included
RECURSIVE DotComponents(_)
DotComponents(v) ==
    IF strchr(v, ".") = 0 THEN <<v>>
    ELSE <<SubSeq(v, 1, strchr(v, ".") - 1)>>
             \o DotComponents(From(v, strchr(v, ".") + 1))

\* the integer a component stands for; 0 for a component that is not a number
ComponentValue(c) ==
    IF c # <<>> /\ \A i \in 1..Len(c) : IsDigit(c[i]) THEN atoi_digits(c, 1, 0) ELSE 0

\* the first index at which the components differ, a missing one being 0
RECURSIVE ComponentOrder(_, _, _)
ComponentOrder(a, b, i) ==
    IF i > Len(a) /\ i > Len(b) THEN 0
    ELSE LET x == IF i <= Len(a) THEN ComponentValue(a[i]) ELSE 0
             y == IF i <= Len(b) THEN ComponentValue(b[i]) ELSE 0
         IN  IF x < y THEN -1 ELSE IF x > y THEN 1 ELSE ComponentOrder(a, b, i + 1)

\* C13 (as claimed): version_compare_c compares the dot-separated integer
\* components left to right, a component missing from the shorter version
\* and a non-numeric component both counting as 0.
C13_ComponentWise ==
    Called("version_compare_c") =>
        out["version_compare_c"].ret
            = ComponentOrder(DotComponents(input.v1), DotComponents(input.v2), 1)

(***************************************************************************)
(* locked_validate.c.  Its JSON helpers and parse_deps_json                *)
(* (locked_validate.c:36-188) are copies of those of dep_fingerprint.c and *)
(* are modelled by the same operators.                                     *)
(***************************************************************************)
MAX_ERRORS == 64
MAX_ERROR_LEN == 256

ValidateText ==
    [missing_open |-> <<"Q", "u", "a", "r", "r", "y", ".", "l", "o", "c", "k", " ", "i", "s", " ", "o", "u", "t", "d", "a", "t", "e", "d", ".", " ", "D", "e", "p", "e", "n", "d", "e", "n", "c", "y", " ", "'">>,
     missing_close |-> <<"'", " ", "i", "n", " ", "Q", "u", "a", "r", "r", "y", ".", "t", "o", "m", "l", " ", "n", "o", "t", " ", "f", "o", "u", "n", "d", " ", "i", "n", " ", "l", "o", "c", "k", "f", "i", "l", "e", ".">>,
     mismatch_open |-> <<"Q", "u", "a", "r", "r", "y", ".", "l", "o", "c", "k", " ", "i", "s", " ", "o", "u", "t", "d", "a", "t", "e", "d", ".", " ", "S", "o", "u", "r", "c", "e", " ", "t", "y", "p", "e", " ", "m", "i", "s", "m", "a", "t", "c", "h", " ", "f", "o", "r", " ", "'">>,
     mismatch_close |-> <<"'", ".">>,
     extra_open |-> <<"Q", "u", "a", "r", "r", "y", ".", "l", "o", "c", "k", " ", "c", "o", "n", "t", "a", "i", "n", "s", " ", "'">>,
     extra_close |-> <<"'", " ", "w", "h", "i", "c", "h", " ", "i", "s", " ", "n", "o", "t", " ", "i", "n", " ", "Q", "u", "a", "r", "r", "y", ".", "t", "o", "m", "l">>,
     valid_true |-> <<"\"", "v", "a", "l", "i", "d", "\"", ":", "t", "r", "u", "e">>,
     valid_false |-> <<"\"", "v", "a", "l", "i", "d", "\"", ":", "f", "a", "l", "s", "e">>,
     errors_open |-> <<",", "\"", "e", "r", "r", "o", "r", "s", "\"", ":", "[">>,
     warnings_open |-> <<",", "\"", "w", "a", "r", "n", "i", "n", "g", "s", "\"", ":", "[">>,
     close |-> <<"]", "}">>]

\* index of the first entry called name, 0 for NULL
find_dep(deps, name) ==
    IF \E i \in 1..Len(deps) : strcmp(deps[i].name, name) = 0
    THEN CHOOSE i \in 1..Len(deps) :
             /\ strcmp(deps[i].name, name) = 0
             /\ \A j \in 1..(i - 1) : strcmp(deps[j].name, name) # 0
    ELSE 0

\* snprintf(errors[n], MAX_ERROR_LEN, "...%s...", name)
validation_message(open, name, close) ==
    SubSeq(open \o name \o close, 1, Min(Len(open \o name \o close), MAX_ERROR_LEN - 1))

\* "Check each TOML dependency": errors[]; valid is false once it is not empty
check_toml_deps(toml_deps, lockfile_deps) ==
    LET check(errors, i) ==
            IF find_dep(lockfile_deps, toml_deps[i].name) = 0
            THEN (IF Len(errors) < MAX_ERRORS
                  THEN Append(errors,
                              validation_message(ValidateText.missing_open,
                                                 toml_deps[i].name,
                                                 ValidateText.missing_close))
                  ELSE errors)
            ELSE IF strcmp(toml_deps[i].type,
                           lockfile_deps[find_dep(lockfile_deps, toml_deps[i].name)].type) # 0
            THEN (IF Len(errors) < MAX_ERRORS
                  THEN Append(errors,
                              validation_message(ValidateText.mismatch_open,
                                                 toml_deps[i].name,
                                                 ValidateText.mismatch_close))
                  ELSE errors)
            ELSE errors
    IN  FoldRange(check, <<>>, 1, Len(toml_deps))

\* "Check for extra dependencies in lockfile (warnings)": warnings[]
check_lockfile_deps(toml_deps, lockfile_deps) ==
    LET check(warnings, i) ==
            IF find_dep(toml_deps, lockfile_deps[i].name) = 0 /\ Len(warnings) < MAX_ERRORS
            THEN Append(warnings,
                        validation_message(ValidateText.extra_open, lockfile_deps[i].name,
                                           ValidateText.extra_close))
            ELSE warnings
    IN  FoldRange(check, <<>>, 1, Len(lockfile_deps))

\* an array header written when 20 more bytes fit, the messages written
\* while the buffer is not nearly full, then the closing text
write_messages(result, header, messages, close, result_cap) ==
    LET write(acc, i) ==
            IF Len(acc) < result_cap - 100
            THEN append_text(append_comma(acc, i, result_cap),
                             QUOTE \o messages[i] \o QUOTE, result_cap)
            ELSE acc
    IN  append_brace(FoldRange(write,
                               IF Len(result) + 20 < result_cap
                               THEN result \o header ELSE result,
                               1, Len(messages)),
                     close, result_cap)

\* "Build JSON result" from errors[] and warnings[]
validation_report(errors, warnings, result_cap) ==
    write_messages(
        write_messages(
            append_text(append_brace(<<>>, <<"{">>, result_cap),
                        IF errors = <<>> THEN ValidateText.valid_true
                        ELSE ValidateText.valid_false,
                        result_cap),
            ValidateText.errors_open, errors, <<"]">>, result_cap),
        ValidateText.warnings_open, warnings, ValidateText.close, result_cap)

\* toml_slots and lockfile_slots are what the two automatic arrays hold
\* before the call
validate_locked_deps_c(toml_deps_json, lockfile_deps_json, toml_slots, lockfile_slots, result_cap) ==
    LET toml_deps == parse_deps_json(toml_deps_json, toml_slots, MAX_DEPS)
        lockfile_deps == parse_deps_json(lockfile_deps_json, lockfile_slots, MAX_DEPS)
    IN  Outcome(0, validation_report(check_toml_deps(toml_deps, lockfile_deps),
                                     check_lockfile_deps(toml_deps, lockfile_deps),
                                     result_cap))

(***************************************************************************)
(* Lock validation: inputs, calls and properties                           *)
(***************************************************************************)
ValidateSources ==
    {[type |-> DepType.registry, fields |-> <<<<DepField.version, Dot3(1, 0, 0)>>>>],
     [type |-> DepType.git, fields |-> <<<<DepField.git_url, <<"u">>>>>>],
     [type |-> DepType.path, fields |-> <<<<DepField.path, <<"p">>>>>>],
     [type |-> DepType.path, fields |-> <<<<DepField.path, <<"p", "}">>>>>>]}

ValidateNames == {<<"a">>, <<"z">>}

\* dependency sets, written in every order of their names
ValidateSets ==
    UNION {{[k \in 1..n |-> <<order[k], sources[k]>>] :
               order \in {o \in KeyOrders(ValidateNames, n) : Len(o) = n},
               sources \in [1..n -> ValidateSources]} :
           n \in 0..Cardinality(ValidateNames)}

InitValidate ==
    /\ input \in [manifest : ValidateSets, lock : ValidateSets]
    /\ out = NoCalls

ValidateLockedDeps ==
    /\ out = NoCalls
    /\ \E toml_slots, lockfile_slots \in LockfileSlots :
           Record("validate_locked_deps_c",
                  validate_locked_deps_c(JsonSet(input.manifest, <<>>),
                                         JsonSet(input.lock, <<>>),
                                         toml_slots, lockfile_slots, RESULT_CAP))
    /\ UNCHANGED input

NextValidate == ValidateLockedDeps

SpecValidate == InitValidate /\ [][NextValidate]_vars

\* the entry of a dependency set called name, as a set of at most one source
SourcesOf(entries, name) == {entries[k][2] : k \in {j \in DOMAIN entries : entries[j][1] = name}}

\* the messages of a list, as they stand in an array of the report
Messages(list) ==
    LET message(acc, i) ==
            acc \o (IF i > 1 THEN <<",">> ELSE <<>>) \o QUOTE \o list[i] \o QUOTE
    IN  FoldRange(message, <<>>, 1, Len(list))

\* one error for each manifest dependency that is missing from the lock or
\* whose type differs from the type of the lock entry of that name
ExpectedErrors(manifest, lock) ==
    LET error(acc, i) ==
            IF SourcesOf(lock, manifest[i][1]) = {}
            THEN Append(acc, ValidateText.missing_open \o manifest[i][1]
                                 \o ValidateText.missing_close)
            ELSE IF \E s \in SourcesOf(lock, manifest[i][1]) : s.type # manifest[i][2].type
            THEN Append(acc, ValidateText.mismatch_open \o manifest[i][1]
                                 \o ValidateText.mismatch_close)
            ELSE acc
    IN  FoldRange(error, <<>>, 1, Len(manifest))

\* one warning for each lock dependency that is absent from the manifest
ExpectedWarnings(manifest, lock) ==
    LET warning(acc, i) ==
            IF SourcesOf(manifest, lock[i][1]) = {}
            THEN Append(acc, ValidateText.extra_open \o lock[i][1]
                                 \o ValidateText.extra_close)
            ELSE acc
    IN  FoldRange(warning, <<>>, 1, Len(lock))

\* the text of the errors array and of the warnings array of a report
ReportErrors(report) ==
    SubSeq(report,
           strstr(report, 1, ValidateText.errors_open) + Len(ValidateText.errors_open),
           strstr(report, 1, <<"]">> \o ValidateText.warnings_open) - 1)

ReportWarnings(report) ==
    SubSeq(report,
           strstr(report, 1, ValidateText.warnings_open) + Len(ValidateText.warnings_open),
           Len(report) - Len(ValidateText.close))

ReportValid(report) == strstr(report, 1, ValidateText.valid_true) = 2

\* C14 (as claimed): validate_locked_deps_c reports exactly one error for
\* every manifest dependency that is missing from the lock or whose type
\* differs from the lock entry of the same name, and no other error.
C14_OneErrorPerMismatch ==
    Called("validate_locked_deps_c") =>
        ReportErrors(out["validate_locked_deps_c"].result)
            = Messages(ExpectedErrors(input.manifest, input.lock))

\* C15 (as claimed): in every report valid is true exactly when the error
\* list is empty, and every lock dependency absent from the manifest adds
\* one warning.
C15_ValidIffNoErrors ==
    Called("validate_locked_deps_c") =>
        /\ ReportValid(out["validate_locked_deps_c"].result)
               <=> (ReportErrors(out["validate_locked_deps_c"].result) = <<>>)
        /\ ReportWarnings(out["validate_locked_deps_c"].result)
               = Messages(ExpectedWarnings(input.manifest, input.lock))

(***************************************************************************)
(* version.c: two threads in version_compare_c.  strtok keeps the position *)
(* at which the next strtok(NULL, ...) resumes in one static pointer of    *)
(* the C library, shared by every thread of the process.  Here `out` holds *)
(* the state of the calls in progress:                                     *)
(*   heap  the malloc'ed buffers s1 = <<t, 1>> and s2 = <<t, 2>> of each   *)
(*         thread t, as texts in which strtok has written NULs             *)
(*   olds  the static pointer of strtok                                    *)
(*   th    per thread: pc, token, parts1, parts2 and the return value      *)
(***************************************************************************)
NULL == [buf |-> <<>>, pos |-> 0]

\* strtok(s, "."), s a pointer or NULL: the token returned, the new static
\* pointer, and the heap with the delimiter after the token overwritten
strtok(heap, olds, s) ==
    LET from == IF s = NULL THEN olds ELSE s
        text == heap[from.buf]
        start == SkipWhile(text, from.pos, {"."})
        stop == SkipUntil(text, start, {"."})
    IN  IF At(text, start) = NUL
        THEN [token |-> NULL, olds |-> [buf |-> from.buf, pos |-> start], heap |-> heap]
        ELSE IF At(text, stop) = NUL
        THEN [token |-> [buf |-> from.buf, pos |-> start],
              olds |-> [buf |-> from.buf, pos |-> stop], heap |-> heap]
        ELSE [token |-> [buf |-> from.buf, pos |-> start],
              olds |-> [buf |-> from.buf, pos |-> stop + 1],
              heap |-> [heap EXCEPT ![from.buf][stop] = NUL]]

\* lines 18-30: the copies s1 and s2, then token = strtok(s1, ".")
StartCompare(t) ==
    /\ out.th[t].pc = "start"
    /\ LET heap == [out.heap EXCEPT ![<<t, 1>>] = input[t].v1, ![<<t, 2>>] = input[t].v2]
           r == strtok(heap, out.olds, [buf |-> <<t, 1>>, pos |-> 1])
       IN  out' = [heap |-> r.heap, olds |-> r.olds,
                   th |-> [out.th EXCEPT ![t].pc = "parts1", ![t].token = r.token]]
    /\ UNCHANGED input

\* one pass of a loop "while (token && count < 32)": lines 31-34 and 40-43
ParsePart(t) ==
    /\ out.th[t].pc \in {"parts1", "parts2"}
    /\ out.th[t].token # NULL
    /\ Len(out.th[t][out.th[t].pc]) < MAX_PARTS
    /\ LET r == strtok(out.heap, out.olds, NULL)
           token == out.th[t].token
           \* the NUL-terminated text that token points to
           text == SubSeq(out.heap[token.buf], token.pos,
                          SkipUntil(out.heap[token.buf], token.pos, {NUL}) - 1)
       IN  out' = [heap |-> r.heap, olds |-> r.olds,
                   th |-> [out.th EXCEPT
                              ![t][out.th[t].pc] = Append(@, atoi(text)),
                              ![t].token = r.token]]
    /\ UNCHANGED input

\* lines 37-39 after the first loop: s1 is copied again, token = strtok(s2, ".")
ParseSecond(t) ==
    /\ out.th[t].pc = "parts1"
    /\ out.th[t].token = NULL \/ Len(out.th[t].parts1) >= MAX_PARTS
    /\ LET heap == [out.heap EXCEPT ![<<t, 1>>] = input[t].v1]
           r == strtok(heap, out.olds, [buf |-> <<t, 2>>, pos |-> 1])
       IN  out' = [heap |-> r.heap, olds |-> r.olds,
                   th |-> [out.th EXCEPT ![t].pc = "parts2", ![t].token = r.token]]
    /\ UNCHANGED input

\* lines 45-63 after the second loop: the comparison, free(s1), free(s2).
\* A freed buffer that is read afterwards holds its old bytes, or bytes the
\* allocator or a later owner wrote there.
FinishCompare(t) ==
    /\ out.th[t].pc = "parts2"
    /\ out.th[t].token = NULL \/ Len(out.th[t].parts2) >= MAX_PARTS
    /\ \E f1, f2 \in {<<>>, <<NUL>>, <<"7">>} :
           out' = [heap |-> [out.heap EXCEPT
                                ![<<t, 1>>] = IF f1 = <<>> THEN @
                                              ELSE [i \in DOMAIN @ |-> f1[1]],
                                ![<<t, 2>>] = IF f2 = <<>> THEN @
                                              ELSE [i \in DOMAIN @ |-> f2[1]]],
                   olds |-> out.olds,
                   th |-> [out.th EXCEPT
                              ![t].pc = "done",
                              ![t].ret = compare_parts(out.th[t].parts1,
                                                       out.th[t].parts2, 1)]]
    /\ UNCHANGED input

(***************************************************************************)
(* Concurrent comparison: inputs, calls and properties                     *)
(***************************************************************************)
Threads == {1, 2}

ThreadPairs ==
    {[v1 |-> Dot2(1, 0), v2 |-> Dot3(1, 0, 0)],
     [v1 |-> Dot2(1, 2), v2 |-> Dot2(1, 10)],
     [v1 |-> Dot2(2, 0), v2 |-> Dot2(1, 5)]}

InitThreads ==
    /\ input \in [Threads -> ThreadPairs]
    /\ out = [heap |-> [b \in Threads \X {1, 2} |-> <<>>],
              olds |-> NULL,
              th |-> [t \in Threads |->
                         [pc |-> "start", token |-> NULL, parts1 |-> <<>>,
                          parts2 |-> <<>>, ret |-> 0]]]

NextThreads ==
    \E t \in Threads :
        \/ StartCompare(t)
        \/ ParsePart(t)
        \/ ParseSecond(t)
        \/ FinishCompare(t)

SpecThreads == InitThreads /\ [][NextThreads]_vars

\* C16 (as claimed): two threads that call version_compare_c at the same
\* time on their own inputs each get the result the call has when it runs
\* alone.
C16_ConcurrentCallsIndependent ==
    \A t \in Threads :
        (out.th[t].pc = "done") =>
            out.th[t].ret = version_compare_c(input[t].v1, input[t].v2)

(***************************************************************************)
(* The canonical serialization, as the format is specified                 *)
(***************************************************************************)
\* the fields of each variant in their fixed order, required field first
CanonicalFields(type) ==
    IF type = DepType.registry THEN <<DepField.version, DepField.checksum>>
    ELSE IF type = DepType.git THEN <<DepField.git_url, DepField.git_branch, DepField.commit>>
    ELSE <<DepField.path, DepField.hash>>

\* sources whose type is written as the canonical form writes it and whose
\* values need no escaping
PlainSource(source) ==
    /\ source.type \in {DepType.registry, DepType.git, DepType.path}
    /\ \A k \in DOMAIN source.fields :
           Range(source.fields[k][2]) \cap {"\\", "\"", "}"} = {}

\* a field is written when the entry supplies it with a non-empty value;
\* the hex digits of a checksum or hash are written in lower case
CanonicalField(fields, key) ==
    IF HasKey(fields, key) /\ ValueAt(fields, key) # <<>>
    THEN <<",">> \o QUOTE \o key \o QUOTE \o <<":">> \o QUOTE
         \o (IF key \in {DepField.checksum, DepField.hash}
             THEN lowercase_hex(ValueAt(fields, key)) ELSE ValueAt(fields, key))
         \o QUOTE
    ELSE <<>>

CanonicalEntry(name, source) ==
    LET field(acc, i) ==
            acc \o CanonicalField(source.fields, CanonicalFields(source.type)[i])
    IN  FoldRange(field,
                  QUOTE \o name \o QUOTE \o <<":", "{">> \o QUOTE \o DepField.type
                      \o QUOTE \o <<":">> \o QUOTE \o source.type \o QUOTE,
                  1, Len(CanonicalFields(source.type))) \o CLOSE_BRACE

CanonicalSet(entries) ==
    LET entry(acc, i) ==
            acc \o (IF i > 1 THEN <<",">> ELSE <<>>)
                \o CanonicalEntry(entries[i][1], entries[i][2])
    IN  FoldRange(entry, <<"{">>, 1, Len(entries)) \o CLOSE_BRACE

\* C19 (as claimed): in the output of normalize_dependency_set_c each entry
\* carries exactly the fields of its variant in the fixed order (Registry:
\* type, version, checksum; Git: type, git_url, git_branch, commit; Path:
\* type, path, hash), an optional field being written if and only if the
\* input entry supplies it with a non-empty value.
C19_CanonicalFields ==
    (/\ Called("normalize_dependency_set_c")
     /\ input \in FingerprintInputs
     /\ \A k \in DOMAIN input.entries : PlainSource(input.entries[k][2])) =>
        out["normalize_dependency_set_c"].result = CanonicalSet(ByName(input.entries))

(***************************************************************************)
(* The variant of a decoded entry                                          *)
(***************************************************************************)
\* the start of an entry in the output of read_lockfile_c: name and type
DecodedAs(name, type) ==
    JsonString(name) \o <<":", "{">> \o JsonString(DepField.type) \o <<":">>
    \o JsonString(type)

\* C20 (as claimed): read_lockfile_c gives each entry of the dependencies
\* section the variant of that entry's own value (a bare string or a table
\* with a version key: Registry; a table with a git key: Git; else with a
\* path key: Path), whatever the other entries of the section are.
C20_OwnValueOnly ==
    Called("read_lockfile_c") =>
        \A k \in DOMAIN input.entries :
            strstr(out["read_lockfile_c"].result, 1,
                   DecodedAs(input.entries[k][1], input.entries[k][2].type)) # 0


(***************************************************************************)
(* version.c: is_semver_c and is_valid_package_name_c                      *)
(***************************************************************************)
\* isalnum in the C locale
isalnum(c) ==
    \/ IsDigit(c)
    \/ Ord(c) >= 65 /\ Ord(c) <= 90
    \/ Ord(c) >= 97 /\ Ord(c) <= 122

\* the end test of is_semver_c, pos being where the parse stopped
semver_end(s, pos) == IF At(s, pos) # NUL /\ At(s, pos) # "\n" THEN 0 ELSE 1

\* is_semver_c from the end of the patch digits on: the optional suffix
semver_suffix(s, pos) ==
    IF At(s, pos) = "-"
    THEN (IF ~(At(s, pos + 1) # NUL
               /\ (isalnum(At(s, pos + 1)) \/ At(s, pos + 1) \in {".", "-"}))
          THEN 0
          ELSE semver_end(s, SkipWhile(s, pos + 1,
                                       {c \in Range(PrintableChars) :
                                           isalnum(c) \/ c \in {".", "-"}})))
    ELSE semver_end(s, pos)

\* *result of is_semver_c (the return code is 0), for version_len > 0
semver_result(s) ==
    LET major_end == SkipWhile(s, 1, Range(DigitChars))
        minor_end == SkipWhile(s, major_end + 1, Range(DigitChars))
        patch_end == SkipWhile(s, minor_end + 1, Range(DigitChars))
    IN  IF ~IsDigit(At(s, 1)) THEN 0
        ELSE IF At(s, major_end) # "." THEN 0
        ELSE IF ~IsDigit(At(s, major_end + 1)) THEN 0
        ELSE IF At(s, minor_end) # "." THEN 0
        ELSE IF ~IsDigit(At(s, minor_end + 1)) THEN 0
        ELSE semver_suffix(s, patch_end)

is_semver_c(version) ==
    IF Len(version) <= 0 THEN Outcome(-1, <<>>) ELSE Outcome(0, semver_result(version))

\* is_valid_package_name_c: ret is the return code, result the value *result
is_valid_package_name_c(name) ==
    IF Len(name) <= 0 THEN Outcome(-1, <<>>)
    ELSE IF name[1] \in {"-", "_"} THEN Outcome(0, 0)
    ELSE IF name[Len(name)] \in {"-", "_"} THEN Outcome(0, 0)
    ELSE IF \A i \in 1..Len(name) :
                \/ i = Len(name) /\ name[i] = "\n"
                \/ isalnum(name[i]) \/ name[i] \in {"-", "_"}
    THEN Outcome(0, 1)
    ELSE Outcome(0, 0)

(***************************************************************************)
(* Syntax checks: inputs, calls and properties                             *)
(***************************************************************************)
SemverCores ==
    {<<"1", ".", "0", ".", "0">>, <<"1", "0", ".", "2", ".", "3">>, <<"1", ".", "0">>,
     <<"1", ".", ".", "0">>, <<"a", ".", "0", ".", "0">>, <<".", "0", ".", "0">>,
     <<"1", ".", "0", ".", "0", ".", "0">>, <<"1", ".", "0", ".", "0", "-", "a">>,
     <<"1", ".", "0", ".", "0", "-">>, <<"1", ".", "0", ".", "0", "-", "a", ".", "b", "-">>,
     <<"1", ".", "0", ".", "0", "-", "a", "_", "b">>, <<"1", ".", "0", ".">>, <<>>}

SemverTails ==
    {<<>>, <<"\n">>, <<"\n", "\n">>, <<"\n", "x">>, <<"x">>, <<" ">>,
     <<"\n", "1", ".", "0", ".", "0">>}

NameChars == {"a", "Z", "1", "-", "_", "\n", "!"}

MaxNameLen == 3

SyntaxInputs ==
    {core \o tail : core \in SemverCores, tail \in SemverTails}
    \cup UNION {[1..n -> NameChars] : n \in 0..MaxNameLen}

InitSyntax ==
    /\ input \in SyntaxInputs
    /\ out = NoCalls

IsSemver ==
    /\ ~Called("is_semver_c")
    /\ Record("is_semver_c", is_semver_c(input))
    /\ UNCHANGED input

IsValidPackageName ==
    /\ ~Called("is_valid_package_name_c")
    /\ Record("is_valid_package_name_c", is_valid_package_name_c(input))
    /\ UNCHANGED input

NextSyntax ==
    \/ IsSemver
    \/ IsValidPackageName

SpecSyntax == InitSyntax /\ [][NextSyntax]_vars

\* --- the patterns the claims state ---
AllDigits(t) == t # <<>> /\ \A k \in DOMAIN t : IsDigit(t[k])

\* digits '.' digits '.' digits
SemverCore(t) ==
    \E i, j \in DOMAIN t :
        /\ i < j /\ t[i] = "." /\ t[j] = "."
        /\ AllDigits(SubSeq(t, 1, i - 1))
        /\ AllDigits(SubSeq(t, i + 1, j - 1))
        /\ AllDigits(SubSeq(t, j + 1, Len(t)))

\* the core with an optional '-' and one or more of [A-Za-z0-9.-]
SemverPattern(t) ==
    \/ SemverCore(t)
    \/ \E h \in DOMAIN t :
           /\ t[h] = "-" /\ h < Len(t)
           /\ SemverCore(SubSeq(t, 1, h - 1))
           /\ \A k \in (h + 1)..Len(t) : isalnum(t[k]) \/ t[k] \in {".", "-"}

\* the text without one newline as its last character
WithoutNewline(t) ==
    IF t # <<>> /\ t[Len(t)] = "\n" THEN SubSeq(t, 1, Len(t) - 1) ELSE t

\* C21 (as claimed): is_semver_c says 1 exactly when the whole string is
\* digits '.' digits '.' digits, optionally followed by '-' and one or more
\* of [A-Za-z0-9.-], a single newline as the last character being the only
\* extra text tolerated.
C21_SemverPattern ==
    (Called("is_semver_c") /\ out["is_semver_c"].ret = 0) =>
        (out["is_semver_c"].result = 1 <=> SemverPattern(WithoutNewline(input)))

NamePattern(t) ==
    /\ t # <<>>
    /\ \A k \in DOMAIN t : isalnum(t[k]) \/ t[k] \in {"-", "_"}
    /\ isalnum(t[1]) /\ isalnum(t[Len(t)])

\* C22 (as claimed): is_valid_package_name_c says 1 exactly when the name
\* is not empty, all its characters are alphanumeric, '-' or '_', and its
\* first and last character are alphanumeric, one newline after the name
\* being tolerated.
C22_PackageNamePattern ==
    (Called("is_valid_package_name_c") /\ out["is_valid_package_name_c"].ret = 0) =>
        (out["is_valid_package_name_c"].result = 1
            <=> NamePattern(WithoutNewline(input)))

(***************************************************************************)
(* The order of the entries written: normalize_dependency_set_c or         *)
(* generate_lockfile_c on a set whose names differ in case, length and     *)
(* punctuation, written in every order.                                    *)
(***************************************************************************)
OrderNames ==
    {<<"B">>, <<"a">>, <<"a", "b">>, <<"a", "-">>, <<"b">>, <<"Z", "1">>}

OrderSources ==
    {[type |-> DepType.git, fields |-> <<<<DepField.git_url, <<"u">>>>>>],
     [type |-> DepType.registry,
      fields |-> <<<<DepField.version, <<"1", ".", "0", ".", "0">>>>>>]}

\* sets of as many entries as the stale slots of the model cover
OrderSets ==
    UNION {{[k \in 1..n |-> <<order[k], sources[k]>>] :
               order \in {o \in KeyOrders(OrderNames, n) : Len(o) = n},
               sources \in [1..n -> OrderSources]} :
           n \in 0..Cardinality(FingerprintNames)}

InitOrder ==
    /\ input \in {[entries |-> e, json |-> JsonSet(e, <<>>)] : e \in OrderSets}
    /\ out = NoCalls

NextOrder ==
    \/ Normalize
    \/ GenerateLockfile

SpecOrder == InitOrder /\ [][NextOrder]_vars

\* a comes before b in the order of their bytes
ByteBefore(a, b) ==
    \E i \in 1..(Min(Len(a), Len(b)) + 1) :
        /\ \A j \in 1..(i - 1) : a[j] = b[j]
        /\ Ord(At(a, i)) < Ord(At(b, i))

\* where the entry of a name starts in a text in which the name stands
\* between the texts before and after (0: nowhere)
EntryPosition(text, before, name, after) == strstr(text, 1, before \o name \o after)

\* canonical text: "name":{     lockfile: a line  name = ...
CanonicalPosition(text, name) == EntryPosition(text, QUOTE, name, QUOTE \o <<":", "{">>)

LockfilePosition(text, name) == EntryPosition(text, <<"\n">>, name, <<" ", "=", " ">>)

WrittenInOrder(label, before, after) ==
    Called(label) =>
        \A k, l \in DOMAIN input.entries :
            ByteBefore(input.entries[k][1], input.entries[l][1]) =>
                /\ EntryPosition(out[label].result, before, input.entries[k][1], after) > 0
                /\ EntryPosition(out[label].result, before, input.entries[k][1], after)
                       < EntryPosition(out[label].result, before, input.entries[l][1], after)

\* C23: normalize_dependency_set_c and generate_lockfile_c write the entries
\* in ascending byte order of their names, whatever their order in the input.
C23_AscendingNames ==
    /\ WrittenInOrder("normalize_dependency_set_c", QUOTE, QUOTE \o <<":", "{">>)
    /\ WrittenInOrder("generate_lockfile_c", <<"\n">>, <<" ", "=", " ">>)

\* a set given in descending order of names has been encoded
C23_Witness ==
    /\ Called("generate_lockfile_c")
    /\ Len(input.entries) = 2
    /\ ByteBefore(input.entries[2][1], input.entries[1][1])
    /\ LockfilePosition(out["generate_lockfile_c"].result, input.entries[1][1]) > 0

(***************************************************************************)
(* build_graph.c: topological_sort_c step by step.  Here `out` holds the   *)
(* local variables of the call: pc, the graph g, in_degree, reverse_deps   *)
(* (rev), queue, queue_start (1-based), result_order, and at the end the   *)
(* return code and the names written.                                      *)
(***************************************************************************)
\* lines 216-275: parsing, the cycle check, in_degree, reverse_deps and the
\* initial queue; a failure before the loop returns -1
SortStart ==
    /\ out = NoCalls
    /\ LET p == parse_edges_json(input)
           g == p[2]
           failed == p[1] # 0 \/ found_cycle_from(g, 1, {}, {})
       IN  out' = [pc |-> IF failed THEN "done" ELSE "loop",
                   g |-> g,
                   in_degree |-> in_degree_of(g),
                   rev |-> reverse_deps_of(g),
                   queue |-> IF failed THEN <<>>
                             ELSE initial_queue(in_degree_of(g), 1),
                   queue_start |-> 1,
                   result_order |-> <<>>,
                   ret |-> IF failed THEN -1 ELSE 0,
                   result |-> <<>>]
    /\ UNCHANGED input

\* lines 281-294: one pass of "while (queue_start < queue_end)"
SortStep ==
    /\ out # NoCalls
    /\ out.pc = "loop"
    /\ out.queue_start <= Len(out.queue)
    /\ LET current == out.queue[out.queue_start]
           r == FoldRange(LAMBDA st, i : kahn_release(st, out.rev[current][i]),
                          <<out.in_degree, out.queue>>, 1, Len(out.rev[current]))
       IN  out' = [out EXCEPT !.in_degree = r[1],
                              !.queue = r[2],
                              !.queue_start = @ + 1,
                              !.result_order = Append(@, current)]
    /\ UNCHANGED input

\* lines 296-336 after the loop: the count test and the JSON array
SortFinish ==
    /\ out # NoCalls
    /\ out.pc = "loop"
    /\ out.queue_start > Len(out.queue)
    /\ LET written == /\ Len(out.result_order) = Len(out.g.nodes)
                      /\ json_array_fits(out.g, out.result_order, 1, 1)
       IN  out' = [out EXCEPT
                      !.pc = "done",
                      !.ret = IF written THEN 0 ELSE -1,
                      !.result = IF written
                                 THEN [i \in 1..Len(out.result_order) |->
                                          out.g.nodes[out.result_order[i]]]
                                 ELSE <<>>]
    /\ UNCHANGED input

(***************************************************************************)
(* The sort step by step: inputs and properties                            *)
(***************************************************************************)
\* edge maps whose keys stand in every order, and the fan-in maps
SortEdgeMaps ==
    {[i \in 1..Len(order) |-> <<order[i], f[i]>>] :
        <<order, f>> \in
            UNION {{o} \X DepListTuples(Len(o), MaxDeps) :
                   o \in KeyOrders(Range(GraphNames), Len(GraphNames)) \ {<<>>}}}
    \cup FanInEdgeMaps

InitSort == input \in SortEdgeMaps /\ out = NoCalls

NextSort ==
    \/ SortStart
    \/ SortStep
    \/ SortFinish

SpecSort == InitSort /\ [][NextSort]_vars

Sorted == out # NoCalls /\ out.pc = "done" /\ out.ret = 0

PositionOf(order, name) == CHOOSE i \in 1..Len(order) : order[i] = name

DepsOf(edges, key) ==
    UNION {Range(edges[k][2]) : k \in {j \in 1..Len(edges) : edges[j][1] = key}}

\* where the last of the dependencies of key to be written stands in order
LastDependency(edges, order, key) ==
    CHOOSE i \in 1..Len(order) :
        /\ order[i] \in DepsOf(edges, key)
        /\ \A j \in (i + 1)..Len(order) : order[j] \notin DepsOf(edges, key)

C25_LoopBounds ==
    out # NoCalls =>
        /\ \A i \in DOMAIN out.in_degree : out.in_degree[i] >= 0
        /\ \A i, j \in DOMAIN out.queue : out.queue[i] = out.queue[j] => i = j
        /\ Len(out.queue) <= Len(out.g.nodes)
        /\ out.queue_start <= Len(out.g.nodes) + 1
        /\ Len(out.result_order) <= Len(out.g.nodes)

\* the loop has released a node that lists the same dependency twice
C25_Witness ==
    /\ out # NoCalls
    /\ out.pc = "loop"
    /\ input = <<<<"b", <<"a", "a">>>>, <<"a", <<>>>>>>
    /\ out.result_order = <<2, 1>>

(***************************************************************************)
(* Capacity: has_cycle_c or topological_sort_c on edge maps in which the   *)
(* node "a" lists nearly as many, as many, or more dependencies than one   *)
(* node can hold: FillCount times "b" and then one more name.              *)
(***************************************************************************)
MaxOverfill == 2

FillCounts == (MAX_DEPS_PER_NODE - 4)..(MAX_DEPS_PER_NODE + MaxOverfill)

CapacityMaps ==
    {<<<<"a", [j \in 1..n |-> "b"] \o <<late>>>>, <<"b", b_deps>>, <<"c", c_deps>>>> :
        n \in FillCounts, late \in {"b", "c"},
        b_deps \in {<<>>, <<"c">>}, c_deps \in {<<>>, <<"a">>, <<"b">>}}

InitCapacity == input \in CapacityMaps /\ out = NoCalls

SpecCapacity == InitCapacity /\ [][NextGraph]_vars

\* some node lists more dependencies than MAX_DEPS_PER_NODE
BeyondCapacity(edges) ==
    \E k \in 1..Len(edges) : Len(edges[k][2]) > MAX_DEPS_PER_NODE

\* C26 (as claimed): when a node lists more dependencies than
\* MAX_DEPS_PER_NODE, has_cycle_c and topological_sort_c return an error,
\* not a result computed from the truncated list.
C26_CapacityReported ==
    BeyondCapacity(input) =>
        /\ Called("has_cycle_c") => out["has_cycle_c"].ret # 0
        /\ Called("topological_sort_c") => out["topological_sort_c"].ret # 0

(***************************************************************************)
(* Two dependency sets and their canonical serializations: a call of       *)
(* normalize_dependency_set_c on the encoding of each.                     *)
(***************************************************************************)
PairSources ==
    {[type |-> DepType.git, fields |-> <<<<DepField.git_url, <<"u">>>>>>],
     [type |-> DepType.git,
      fields |-> <<<<DepField.git_url, <<"u">>>>, <<DepField.commit, <<"k">>>>>>],
     [type |-> DepType.git,
      fields |-> <<<<DepField.git_url,
                     <<"u", "\"", ",", "\"", "c", "o", "m", "m", "i", "t", "\"", ":",
                       "\"", "k">>>>>>],
     [type |-> DepType.path, fields |-> <<<<DepField.path, <<"p", "}">>>>>>],
     [type |-> DepType.registry,
      fields |-> <<<<DepField.version, <<"1", ".", "0", ".", "0">>>>>>],
     [type |-> DepType.registry,
      fields |-> <<<<DepField.version, <<"2", ".", "0", ".", "0">>>>>>]}

\* sets over the names "a" and "z", written in the order of the names
PairSets ==
    {<<>>}
    \cup {<<<<name, source>>>> : name \in FingerprintNames, source \in PairSources}
    \cup {<<<<<<"a">>, first>>, <<<<"z">>, second>>>> :
            first \in PairSources, second \in PairSources}

Sides == {"first", "second"}

InitPair ==
    /\ input \in [Sides -> PairSets]
    /\ out = NoCalls

NormalizeSide(side) ==
    /\ ~Called(side)
    /\ \E slots \in StaleSlots :
           Record(side, normalize_dependency_set_c(JsonSet(input[side], <<>>), slots,
                                                   RESULT_CAP))
    /\ UNCHANGED input

NextPair == \E side \in Sides : NormalizeSide(side)

SpecPair == InitPair /\ [][NextPair]_vars

\* C27 (as claimed): two dependency sets that differ in a name, a type or a
\* field value have different canonical serializations.
C27_CanonicalInjective ==
    (Called("first") /\ Called("second") /\ input["first"] # input["second"]) =>
        out["first"].result # out["second"].result

(***************************************************************************)
(* The candidates of version_select_c in another order.                    *)
(***************************************************************************)
\* C28 (as claimed): version_select_c returns the same version string for
\* every permutation of the candidate list.
C28_OrderIndependent ==
    Called("version_select_c") =>
        \A other \in Reorderings(input.candidates) :
            version_select_c(input.constraint, JsonArray(other, <<>>), RESULT_CAP)
                = out["version_select_c"].result

(***************************************************************************)
(* The result buffer of parse_dependency_source_c and of                   *)
(* normalize_dependency_set_c byte by byte: result is the function from    *)
(* the indexes written (from 0) to the bytes written there, json_pos the   *)
(* position the code keeps and reports as *result_len.                     *)
(***************************************************************************)
EmptyBuffer == [json_pos |-> 0, result |-> <<>>]

\* the bytes of text stored from index pos on
BytesAt(pos, text) == [i \in pos..(pos + Len(text) - 1) |-> text[i - pos + 1]]

\* json_pos += snprintf((char*)result + json_pos, size, ...) where the format
\* produces text.  snprintf stores at most size - 1 bytes and a NUL and
\* returns the length of the whole text.  A negative size converts to a
\* size_t beyond every buffer: the call then stores the whole text, or
\* fails with EOVERFLOW and returns -1 (huge names which).
snprintf(st, size, text, huge) ==
    IF size = 0 THEN [st EXCEPT !.json_pos = @ + Len(text)]
    ELSE IF size < 0 /\ huge = "EOVERFLOW" THEN [st EXCEPT !.json_pos = @ - 1]
    ELSE LET kept == IF size < 0 THEN Len(text) ELSE Min(Len(text), size - 1)
         IN  [json_pos |-> st.json_pos + Len(text),
              result |-> BytesAt(st.json_pos, SubSeq(text, 1, kept) \o <<NUL>>)
                         @@ st.result]

HugeSizes == {"stored", "EOVERFLOW"}

parse_dependency_source_buffer(json_str, result_cap) ==
    LET cap == result_cap
        first(label, value) ==
            IF 0 + 50 < cap
            THEN snprintf(EmptyBuffer, cap - 0, label \o value \o QUOTE, "stored")
            ELSE EmptyBuffer
        optional(st, label, value) ==
            IF value # <<>> /\ st.json_pos + Len(value) + 30 < cap
            THEN snprintf(st, cap - st.json_pos, label \o value \o QUOTE, "stored")
            ELSE st
        close(st) ==
            IF st.json_pos + 2 < cap
            THEN [json_pos |-> st.json_pos + 1,
                  result |-> BytesAt(st.json_pos, <<"}", NUL>>) @@ st.result]
            ELSE st
        null ==
            IF 0 + 4 < cap
            THEN [json_pos |-> 4, result |-> BytesAt(0, SourceFormat.null \o <<NUL>>)]
            ELSE EmptyBuffer
        field(name) == get_json_field(json_str, name, <<>>)
        git ==
            close(optional(optional(first(SourceFormat.git_open, field(Field.git).buf),
                                    SourceFormat.git_branch,
                                    git_branch_of(field(Field.branch).buf,
                                                  field(Field.tag).buf,
                                                  field(Field.rev).buf)),
                           SourceFormat.commit, field(Field.commit).buf))
        path ==
            close(optional(first(SourceFormat.path_open, field(Field.path).buf),
                           SourceFormat.hash, field(Field.hash).buf))
        registry ==
            close(optional(first(SourceFormat.registry_open, field(Field.version).buf),
                           SourceFormat.checksum, field(Field.checksum).buf))
        version_str == parse_json_string(json_str, 1, <<>>, DEP_MAX_STRING_LEN)
        string ==
            IF version_str.ret < 0 THEN null
            ELSE IF 0 + Len(version_str.buf) + 50 < cap
            THEN snprintf(EmptyBuffer, cap - 0,
                          SourceFormat.registry_open \o version_str.buf
                              \o SourceFormat.quote_close, "stored")
            ELSE EmptyBuffer
        built ==
            IF ~is_json_object(json_str) THEN string
            ELSE IF field(Field.git).ret >= 0 THEN git
            ELSE IF field(Field.path).ret >= 0 THEN path
            ELSE IF field(Field.version).ret >= 0 THEN registry
            ELSE null
    IN  IF result_cap < 2 THEN [ret |-> -1, result_len |-> 0, result |-> <<>>]
        ELSE [ret |-> 0, result_len |-> built.json_pos, result |-> built.result]

normalize_dependency_set_buffer(deps_json, slots, result_cap, huge) ==
    LET cap == result_cap
        deps == sort_deps(normalize_deps(parse_deps_json(deps_json, slots, MAX_DEPS)))
        entry(st, i) ==
            IF st.json_pos >= cap - 200 THEN st
            ELSE LET comma ==
                         IF i > 1 THEN snprintf(st, cap - st.json_pos, <<",">>, huge)
                         ELSE st
                     named == snprintf(comma, cap - comma.json_pos,
                                       QUOTE \o deps[i].name \o QUOTE \o <<":">>, huge)
                     dep_json == serialize_dep_json(deps[i])
                 IN  IF named.json_pos + Len(dep_json) < cap
                     THEN [json_pos |-> named.json_pos + Len(dep_json),
                           result |-> BytesAt(named.json_pos, dep_json) @@ named.result]
                     ELSE named
        opened == snprintf(EmptyBuffer, cap - 0, <<"{">>, huge)
        filled == FoldRange(entry, opened, 1, Len(deps))
        closed == snprintf(filled, cap - filled.json_pos, CLOSE_BRACE, huge)
    IN  IF result_cap < 2 THEN [ret |-> -1, result_len |-> 0, result |-> <<>>]
        ELSE [ret |-> 0, result_len |-> closed.json_pos, result |-> closed.result]

(***************************************************************************)
(* Specification of the result buffer: one call of either function with a  *)
(* result_cap near the lengths its guards test.                            *)
(***************************************************************************)
Repeat(char, n) == [i \in 1..n |-> char]

MaxValueLen == 28

ValueLens == (MaxValueLen - 6)..MaxValueLen

\* the members of an object value: a key the parser ignores, the key of the
\* variant with a value of the given length, and one optional field or none
BufferMembers(len) ==
    {<<<<F_other, <<"x">>>>, <<key, Repeat("u", len)>>>> \o more :
        key \in {Field.git, Field.path, Field.version, F_other},
        more \in {<<>>, <<<<Field.commit, <<"k">>>>>>, <<<<Field.hash, <<"0">>>>>>}}

SourceCaps == {1, 2, 30, 51, 52, 53, 54, 55, 56, 100}

MaxLongName == 200

LongNameLens == (MaxLongName - 4)..MaxLongName

GitU == [type |-> DepType.git, fields |-> <<<<DepField.git_url, <<"u">>>>>>]

LongNameSets ==
    {<<<<Repeat("a", len), GitU>>>> \o more :
        len \in LongNameLens, more \in {<<>>, <<<<<<"z">>, GitU>>>>}}

SetCaps == {1, 2, 201, 202, 203, 300}

BufferInputs ==
    {[function |-> "parse_dependency_source_c", json |-> JsonObject(m, <<>>),
      result_cap |-> cap] :
        m \in UNION {BufferMembers(len) : len \in ValueLens}, cap \in SourceCaps}
    \cup {[function |-> "parse_dependency_source_c", json |-> JsonString(Repeat("1", len)),
           result_cap |-> cap] : len \in ValueLens, cap \in SourceCaps}
    \cup {[function |-> "normalize_dependency_set_c", json |-> JsonSet(e, <<>>),
           result_cap |-> cap] : e \in LongNameSets, cap \in SetCaps}

InitBuffer ==
    /\ input \in BufferInputs
    /\ out = NoCalls

ParseIntoBuffer ==
    /\ out = NoCalls
    /\ input.function = "parse_dependency_source_c"
    /\ Record(input.function, parse_dependency_source_buffer(input.json, input.result_cap))
    /\ UNCHANGED input

NormalizeIntoBuffer ==
    /\ out = NoCalls
    /\ input.function = "normalize_dependency_set_c"
    /\ \E slots \in StaleSlots, huge \in HugeSizes :
           Record(input.function,
                  normalize_dependency_set_buffer(input.json, slots, input.result_cap, huge))
    /\ UNCHANGED input

NextBuffer == ParseIntoBuffer \/ NormalizeIntoBuffer

SpecBuffer == InitBuffer /\ [][NextBuffer]_vars

\* C29 (as claimed): when parse_dependency_source_c or
\* normalize_dependency_set_c returns success, the reported result_len is at
\* most result_cap and no byte at or beyond index result_cap was written.
C29_WithinResultCap ==
    (out # NoCalls /\ out[input.function].ret = 0) =>
        /\ out[input.function].result_len <= input.result_cap
        /\ \A index \in DOMAIN out[input.function].result : index < input.result_cap

(***************************************************************************)
(* version_compare_c as an order on version strings.                       *)
(***************************************************************************)
\* C30 (as claimed): compare(a, a) is Equal, compare(a, b) is the opposite
\* of compare(b, a), and compare(a, b) # Greater with compare(b, c) # Greater
\* implies compare(a, c) # Greater.
C30_TotalPreorder ==
    Called("version_compare_c") =>
        /\ input.v1 = input.v2 => out["version_compare_c"].ret = 0
        /\ version_compare_c(input.v2, input.v1) = -out["version_compare_c"].ret
        /\ \A v3 \in CompareVersions :
               (out["version_compare_c"].ret # 1 /\ version_compare_c(input.v2, v3) # 1)
                   => version_compare_c(input.v1, v3) # 1

\* a call that is one link of a chain 1.0 < 1.2 < 1.10
C30_Witness ==
    /\ Called("version_compare_c")
    /\ input.v1 = <<"1", ".", "0">>
    /\ input.v2 = <<"1", ".", "2">>
    /\ out["version_compare_c"].ret = -1
    /\ version_compare_c(input.v2, <<"1", ".", "1", "0">>) = -1
    /\ version_compare_c(input.v1, <<"1", ".", "1", "0">>) = -1

====
